---- MODULE Spec2Model ----
(***************************************************************************)
(* PostgresStore (src/src/infra/db/postgres/postgres-store.ts): the        *)
(* hybrid store that keeps AgentInfo, messages, tool-call records and      *)
(* snapshots in PostgreSQL and events in a file store.                     *)
(*                                                                         *)
(* The database is modelled the way PostgreSQL runs the statements the     *)
(* store issues: READ COMMITTED, one pooled connection per call, a         *)
(* statement outside BEGIN..COMMIT commits by itself, row versions carry   *)
(* the transaction that wrote them (xmin) and the one that deleted them    *)
(* (xmax), a writer waits for the row locks of another open transaction,   *)
(* and a unique index makes an inserter wait for an open transaction that  *)
(* holds the same key.  Every await of the code is one step of a caller.   *)
(***************************************************************************)
EXTENDS Integers, Sequences, FiniteSets, TLC

VARIABLES pool, initStep, initError, agents, messages, tool_calls, snapshots,
          events, pc, call, idx, waitSet, upd, caught, result,
          e2b, killed, watchCount, watchers, handles, stops

vars == <<pool, initStep, initError, agents, messages, tool_calls, snapshots,
          events, pc, call, idx, waitSet, upd, caught, result,
          e2b, killed, watchCount, watchers, handles, stops>>

dbVars == <<agents, messages, tool_calls, snapshots>>
\* the E2BSandbox: its instance reference and whether the sandbox behind it
\* was killed, the watcher ids it has made, its registry of watchers (in
\* insertion order), the watch handles it was handed (open or stopped), and
\* the stop() calls of unwatchFiles that are still under way
sandboxVars == <<e2b, killed, watchCount, watchers, handles, stops>>
\* what the constructor sets up: the pool (its configuration) and the
\* initialization promise
initVars == <<pool, initStep, initError>>

(***************************************************************************)
(* Bounds of the model.                                                    *)
(***************************************************************************)
\* longest message list / record list a caller passes
MaxLen == 2
\* most events appended to one agent's timeline
MaxEvents == 3

AgentIds == {"agt:1", "agt:2"}
Clients == {"c1", "c2"}

(***************************************************************************)
(* Values.  JavaScript's undefined and SQL's NULL are two distinct tokens. *)
(***************************************************************************)
Undefined == "undefined"
Null == "null"
Committed == "committed"
NoTxn == "none"
NoErr == <<>>

\* JavaScript truthiness of a string-valued field (x ? .. : .., x || ..)
Truthy(v) == v \notin {Undefined, Null, ""}

\* x ? JSON.stringify(x) : null  and  x || null
OrNull(v) == IF Truthy(v) THEN v ELSE Null
\* row.x || undefined
OrUndefined(v) == IF Truthy(v) THEN v ELSE Undefined

(***************************************************************************)
(* Schema: initialize() runs the four CREATE TABLE statements and then the *)
(* four index batches, one query after the other.  initStep counts the     *)
(* queries that have completed.                                            *)
(***************************************************************************)
InitQueries == <<"agents", "messages", "tool_calls", "snapshots",
                 "idx_agents", "idx_messages", "idx_tool_calls", "idx_snapshots">>

QueryIndex(q) == CHOOSE i \in 1..Len(InitQueries) : InitQueries[i] = q

TableExists(t) == initStep >= QueryIndex(t)

\* CREATE UNIQUE INDEX idx_messages_agent_seq ON messages(agent_id, seq)
UniqueAgentSeq == initStep >= QueryIndex("idx_messages")

\* this.initPromise has resolved
Initialized == initStep = Len(InitQueries) /\ ~initError

(***************************************************************************)
(* Inputs.  A Message is role, content blocks and optional metadata; the   *)
(* content and the metadata documents are opaque JSON tokens.              *)
(***************************************************************************)
Roles == {"user", "assistant", "system"}

MsgUser == [role |-> "user", content |-> "[hello]", metadata |-> Undefined]
MsgAssistant == [role |-> "assistant", content |-> "[hi]", metadata |-> "{k:1}"]
\* a role outside the messages.role CHECK list (possible through `as any`)
MsgBadRole == [role |-> "tool", content |-> "[x]", metadata |-> Undefined]

SeqsUpTo(S, n) == UNION {[1..k -> S] : k \in 0..n}

NoInfo == [undefined |-> TRUE]
NoSnapshot == [undefined |-> TRUE]

Info(a, n, bp) ==
  [agentId |-> a, templateId |-> "tpl", createdAt |-> "2024-01-01T00:00:00.000Z",
   configVersion |-> "v1", lineage |-> <<>>, messageCount |-> n,
   lastSfpIndex |-> -1, lastBookmark |-> Undefined, breakpoint |-> bp,
   metadata |-> "{}"]

\* rows: the results of the queries a reading call has awaited so far;
\* args: the arguments of a sandbox call that it still works through
NoCall ==
  [op |-> "none", agentId |-> "", messages |-> <<>>, info |-> NoInfo,
   records |-> <<>>, snapshot |-> NoSnapshot, issued |-> "resolved",
   rows |-> <<>>, args |-> <<>>]

\* the state of this.initPromise when a call is issued
InitPromise ==
  IF initError THEN "rejected"
  ELSE IF initStep = Len(InitQueries) THEN "resolved" ELSE "pending"

NewCall(op, a) == [NoCall EXCEPT !.op = op, !.agentId = a, !.issued = InitPromise]

(***************************************************************************)
(* Row versions and what a statement sees (READ COMMITTED).                *)
(***************************************************************************)
\* rows a statement of connection c sees: committed ones and its own
\* transaction's, less the ones its own transaction deleted
VisibleTo(c, t) == (t.xmin = Committed \/ t.xmin = c) /\ t.xmax # c

\* rows a statement on a connection with no open transaction sees
CommittedRows(tbl) == {t \in tbl : t.xmin = Committed}

\* the row is locked by the uncommitted DELETE of another connection
LockedByOther(c, t) == t.xmax \notin {NoTxn, c}

\* a row version without its transaction marks: what a waiting statement
\* remembers of the rows of its snapshot
Ident(t) == [t EXCEPT !.xmin = Committed, !.xmax = NoTxn]

\* the same column values (ver only tells apart two physical rows that
\* carry the same values)
SameValues(t, u) == [t EXCEPT !.ver = 0, !.xmin = Committed, !.xmax = NoTxn]
                      = [u EXCEPT !.ver = 0, !.xmin = Committed, !.xmax = NoTxn]

\* the least ver no row of tbl with the values of row carries
FreshVer(tbl, row) ==
  CHOOSE n \in 0..Cardinality(tbl) :
    /\ \A t \in tbl : SameValues(t, row) => t.ver # n
    /\ \A m \in 0..(n - 1) : \E t \in tbl : SameValues(t, row) /\ t.ver = m

\* COMMIT of connection c: its deletes and inserts become visible together
CommitTxn(tbl, c) ==
  LET kept == {t \in tbl : t.xmax # c}
      old == {t \in kept : t.xmin # c}
  IN old \cup {[t EXCEPT !.xmin = Committed, !.ver = FreshVer(old, t)] :
                 t \in {u \in kept : u.xmin = c}}

\* what the statements waiting on rows still remember after COMMIT of c
\* removed the rows c deleted
CommitWaits(tbl, c) ==
  [d \in Clients |->
     IF d = c THEN {} ELSE waitSet[d] \ {Ident(t) : t \in {u \in tbl : u.xmax = c}}]

\* a catch block that ends the transaction without undoing it
RollbackAsCommit(tbl, c) == CommitTxn(tbl, c)

\* ROLLBACK of connection c (also what the server does when c's connection
\* is lost inside a transaction)
RollbackTxn(tbl, c) ==
  {IF t.xmax = c THEN [t EXCEPT !.xmax = NoTxn] ELSE t :
     t \in {u \in tbl : u.xmin # c}}

\* the agents row of agent a, as a set of zero or one rows
AgentRow(a) == {r \in agents : r.agent_id = a}

\* connection d's open transaction holds the row lock of UPDATE agents
HoldsRowUpdate(d, a) == upd[d] /\ call[d].agentId = a

\* connection d's open transaction passed a foreign-key check on agent a
\* (FOR KEY SHARE on the agents row until it ends)
HoldsKeyShare(d, a) ==
  \/ \E t \in messages : t.agent_id = a /\ t.xmin = d
  \/ \E t \in tool_calls : t.agent_id = a /\ t.xmin = d

\* connection d's open transaction has deleted rows of agent a
HoldsRowDelete(d, a) ==
  \/ \E t \in messages : t.agent_id = a /\ t.xmax = d
  \/ \E t \in tool_calls : t.agent_id = a /\ t.xmax = d

(***************************************************************************)
(* Reads, as one statement on a connection of its own.                     *)
(***************************************************************************)
RECURSIVE OrderBySeqDesc(_)
\* ORDER BY seq DESC
OrderBySeqDesc(S) ==
  IF S = {} THEN <<>>
  ELSE LET t == CHOOSE x \in S : \A y \in S : x.seq >= y.seq
       IN <<t>> \o OrderBySeqDesc(S \ {t})

RECURSIVE OrderBySeq(_)
\* ORDER BY seq ASC (rows of equal seq, possible only without the unique
\* index, in an order the server picks)
OrderBySeq(S) ==
  IF S = {} THEN <<>>
  ELSE LET t == CHOOSE x \in S : \A y \in S : x.seq <= y.seq
       IN <<t>> \o OrderBySeq(S \ {t})

RowToMessage(t) ==
  [role |-> t.role, content |-> t.content, metadata |-> OrUndefined(t.metadata)]

loadMessages(a) ==
  LET rows == OrderBySeq({t \in CommittedRows(messages) : t.agent_id = a})
  IN [i \in 1..Len(rows) |-> RowToMessage(rows[i])]

exists(a) == AgentRow(a) # {}

\* dependent tables declared without their foreign key
NoForeignKey(a) == TRUE

\* FOREIGN KEY (agent_id) REFERENCES agents(agent_id): the check an INSERT
\* into messages, tool_calls or snapshots makes
ReferencesAgent(a) == exists(a)

\* node-postgres hands a TIMESTAMP column back as a Date object, not as the
\* ISO string that was bound to the INSERT
TimestampToJs(ts) == <<"Date", ts>>

RowToInfo(r) ==
  [agentId |-> r.agent_id, templateId |-> r.template_id,
   createdAt |-> TimestampToJs(r.created_at), configVersion |-> r.config_version,
   lineage |-> r.lineage, messageCount |-> r.message_count,
   lastSfpIndex |-> r.last_sfp_index,
   lastBookmark |-> OrUndefined(r.last_bookmark),
   breakpoint |-> IF Truthy(r.breakpoint) THEN r.breakpoint ELSE Undefined,
   metadata |-> r.metadata]

loadInfo(a) == IF exists(a) THEN RowToInfo(CHOOSE r \in AgentRow(a) : TRUE) ELSE NoInfo

\* loadInfo(a).messageCount, -1 when the agent has no row
messageCount(a) == IF exists(a) THEN (CHOOSE r \in AgentRow(a) : TRUE).message_count ELSE -1

(***************************************************************************)
(* Construction and initialize().                                          *)
(***************************************************************************)
\* the configuration of a Pool made from a connectionConfig that names no
\* pool settings (node-postgres: 10 clients, connect() waits without limit)
DefaultPool == [max |-> 10, connectionTimeoutMillis |-> 0]

\* the state new PostgresStore(..) leaves, but for the pool; the sandbox is
\* not connected (private e2b = null)
InitStore ==
  /\ e2b = Null
  /\ killed = FALSE
  /\ watchCount = 0
  /\ watchers = <<>>
  /\ handles = <<>>
  /\ stops = {}
  /\ initStep = 0
  /\ initError = FALSE
  /\ agents = {}
  /\ messages = {}
  /\ tool_calls = {}
  /\ snapshots = {}
  /\ events = [a \in AgentIds |-> <<>>]
  /\ pc = [c \in Clients |-> "idle"]
  /\ call = [c \in Clients |-> NoCall]
  /\ idx = [c \in Clients |-> 0]
  /\ waitSet = [c \in Clients |-> {}]
  /\ upd = [c \in Clients |-> FALSE]
  /\ caught = [c \in Clients |-> NoErr]
  /\ result = [c \in Clients |-> NoErr]

Init == pool = DefaultPool /\ InitStore

\* two committed rows of messages with the same (agent_id, seq)
DuplicateAgentSeq ==
  \E t, u \in CommittedRows(messages) :
    t # u /\ t.agent_id = u.agent_id /\ t.seq = u.seq

\* one query of createTables / createIndexes completes (or, for the unique
\* index over rows that already collide, fails and rejects initPromise)
initialize ==
  /\ initStep < Len(InitQueries)
  /\ ~initError
  /\ LET q == InitQueries[initStep + 1] IN
       /\ q = "idx_messages" => \A t \in messages : t.xmin = Committed /\ t.xmax = NoTxn
       /\ IF q = "idx_messages" /\ DuplicateAgentSeq
          THEN initError' = TRUE /\ initStep' = initStep
          ELSE initError' = FALSE /\ initStep' = initStep + 1
  /\ UNCHANGED <<sandboxVars, pool, dbVars, events, pc, call, idx, waitSet, upd, caught, result>>

\* a query of initialize() rejects (the server is unreachable): the catch
\* of the constructor records initError
initialize_reject ==
  /\ initStep < Len(InitQueries)
  /\ ~initError
  /\ initError' = TRUE
  /\ UNCHANGED <<sandboxVars, pool, initStep, dbVars, events, pc, call, idx, waitSet, upd, caught, result>>

(***************************************************************************)
(* A caller's bookkeeping.                                                 *)
(***************************************************************************)
\* the call settles: finally { client.release() } and the promise resolves
\* (err = NoErr) or rejects with err
Settle(c, err) ==
  /\ pc' = [pc EXCEPT ![c] = "done"]
  /\ result' = [result EXCEPT ![c] = err]

\* the caller takes the settled result and is free to call again
return(c) ==
  /\ pc[c] = "done"
  /\ pc' = [pc EXCEPT ![c] = "idle"]
  /\ call' = [call EXCEPT ![c] = NoCall]
  /\ idx' = [idx EXCEPT ![c] = 0]
  /\ caught' = [caught EXCEPT ![c] = NoErr]
  /\ result' = [result EXCEPT ![c] = NoErr]
  /\ UNCHANGED <<sandboxVars, initVars, dbVars, events, waitSet, upd>>

(***************************************************************************)
(* saveInfo(agentId, info)                                                 *)
(***************************************************************************)
\* an INSERT that leaves the lineage column at an empty array
InfoToRowNoLineage(agentId, info) ==
  [agent_id |-> info.agentId, template_id |-> info.templateId,
   created_at |-> info.createdAt, config_version |-> info.configVersion,
   lineage |-> <<>>, message_count |-> info.messageCount,
   last_sfp_index |-> info.lastSfpIndex,
   last_bookmark |-> OrNull(info.lastBookmark),
   breakpoint |-> OrNull(info.breakpoint), metadata |-> info.metadata]

\* the parameter list of the INSERT: the row is keyed by info.agentId
InfoToRow(agentId, info) ==
  [agent_id |-> info.agentId, template_id |-> info.templateId,
   created_at |-> info.createdAt, config_version |-> info.configVersion,
   lineage |-> info.lineage, message_count |-> info.messageCount,
   last_sfp_index |-> info.lastSfpIndex,
   last_bookmark |-> OrNull(info.lastBookmark),
   breakpoint |-> OrNull(info.breakpoint), metadata |-> info.metadata]

\* INSERT .. ON CONFLICT (agent_id) DO UPDATE SET every other column
Upsert(rows, row) == {r \in rows : r.agent_id # row.agent_id} \cup {row}

\* const client = await this.pool.connect()
saveInfo_connect(c, a, info) ==
  /\ pc[c] = "idle"
  /\ pc' = [pc EXCEPT ![c] = "UPSERT_AGENT"]
  /\ call' = [call EXCEPT ![c] = [NewCall("saveInfo", a) EXCEPT !.info = info]]
  /\ UNCHANGED <<sandboxVars, initVars, dbVars, events, idx, waitSet, upd, caught, result>>

\* await client.query(INSERT INTO agents ..), then finally release
saveInfo_query(c) ==
  /\ pc[c] = "UPSERT_AGENT"
  /\ LET row == InfoToRow(call[c].agentId, call[c].info) IN
       IF ~TableExists("agents")
       THEN /\ Settle(c, <<"INSERT", "undefined_table">>)
            /\ UNCHANGED agents
       ELSE /\ \A d \in Clients \ {c} : ~HoldsRowUpdate(d, row.agent_id)
            /\ agents' = Upsert(agents, row)
            /\ Settle(c, NoErr)
  /\ UNCHANGED <<sandboxVars, initVars, messages, tool_calls, snapshots, events, call, idx,
                 waitSet, upd, caught>>

(***************************************************************************)
(* saveMessages(agentId, messages)                                         *)
(***************************************************************************)
\* const client = await this.pool.connect()
saveMessages_connect(c, a, M) ==
  /\ pc[c] = "idle"
  /\ pc' = [pc EXCEPT ![c] = "BEGIN"]
  /\ call' = [call EXCEPT ![c] = [NewCall("saveMessages", a) EXCEPT !.messages = M]]
  /\ idx' = [idx EXCEPT ![c] = 0]
  /\ UNCHANGED <<sandboxVars, initVars, dbVars, events, waitSet, upd, caught, result>>

\* await client.query('BEGIN')
saveMessages_BEGIN(c) ==
  /\ pc[c] = "BEGIN"
  /\ call[c].op = "saveMessages"
  /\ pc' = [pc EXCEPT ![c] = "DELETE"]
  /\ UNCHANGED <<sandboxVars, initVars, dbVars, events, call, idx, waitSet, upd, caught, result>>

\* the statement after the DELETE: the first INSERT of the loop, or the
\* UPDATE when the list is empty
AfterDelete(c) == IF Len(call[c].messages) > 0 THEN "INSERT" ELSE "UPDATE"

\* the DELETE run outside the transaction (on the pool, not on the client):
\* the rows are gone for every reader at once
MarkDeletedAutocommit(tbl, c, rows) ==
  {t \in tbl : ~(Ident(t) \in rows /\ VisibleTo(c, t) /\ t.xmax = NoTxn)}

\* uncommitted DELETE of connection c on the given rows
MarkDeleted(tbl, c, rows) ==
  {IF Ident(t) \in rows /\ VisibleTo(c, t) /\ t.xmax = NoTxn
   THEN [t EXCEPT !.xmax = c] ELSE t : t \in tbl}

\* a statement of the transaction fails: control passes to the catch block
Catch(c, err) ==
  /\ pc' = [pc EXCEPT ![c] = "ROLLBACK"]
  /\ caught' = [caught EXCEPT ![c] = err]

\* await client.query('DELETE FROM messages WHERE agent_id = $1')
\* The statement takes its snapshot; when a row it sees is locked by another
\* open transaction it waits with that snapshot
saveMessages_DELETE(c) ==
  /\ pc[c] = "DELETE"
  /\ call[c].op = "saveMessages"
  /\ LET seen == {t \in messages : t.agent_id = call[c].agentId /\ VisibleTo(c, t)} IN
       IF ~TableExists("messages")
       THEN /\ Catch(c, <<"DELETE", "undefined_table">>)
            /\ UNCHANGED <<messages, waitSet>>
       ELSE IF \E t \in seen : LockedByOther(c, t)
       THEN /\ pc' = [pc EXCEPT ![c] = "DELETE_WAIT"]
            /\ waitSet' = [waitSet EXCEPT ![c] = {Ident(t) : t \in seen}]
            /\ UNCHANGED <<messages, caught>>
       ELSE /\ messages' = MarkDeleted(messages, c, {Ident(t) : t \in seen})
            /\ pc' = [pc EXCEPT ![c] = AfterDelete(c)]
            /\ UNCHANGED <<waitSet, caught>>
  /\ UNCHANGED <<sandboxVars, initVars, agents, tool_calls, snapshots, events, call, idx, upd, result>>

\* the waiting DELETE goes on once the transactions it waited for have
\* ended: it deletes the rows of its snapshot that still exist
saveMessages_DELETE_resume(c) ==
  /\ pc[c] = "DELETE_WAIT"
  /\ call[c].op = "saveMessages"
  /\ \A t \in messages : Ident(t) \in waitSet[c] /\ VisibleTo(c, t) => ~LockedByOther(c, t)
  /\ messages' = MarkDeleted(messages, c, waitSet[c])
  /\ waitSet' = [waitSet EXCEPT ![c] = {}]
  /\ pc' = [pc EXCEPT ![c] = AfterDelete(c)]
  /\ UNCHANGED <<sandboxVars, initVars, agents, tool_calls, snapshots, events, call, idx, upd,
                 caught, result>>

\* the column values of the index-th INSERT (its id, from
\* generateMessageId(), is taken to be new)
MessageToRow(c, agentId, msg, index) ==
  [agent_id |-> agentId, role |-> msg.role, content |-> msg.content,
   seq |-> index, metadata |-> OrNull(msg.metadata),
   ver |-> 0, xmin |-> c, xmax |-> NoTxn]

\* a new physical row with these values
NewRow(tbl, row) == [row EXCEPT !.ver = FreshVer(tbl, row)]

\* rows that hold the key (agent_id, seq) of row against an insert by c
SameAgentSeq(c, row) ==
  {t \in messages : t.agent_id = row.agent_id /\ t.seq = row.seq /\ t.xmax # c}

\* await client.query(INSERT INTO messages ..) for messages[index]
saveMessages_INSERT(c) ==
  /\ pc[c] = "INSERT"
  /\ call[c].op = "saveMessages"
  /\ idx[c] < Len(call[c].messages)
  /\ LET row == MessageToRow(c, call[c].agentId, call[c].messages[idx[c] + 1], idx[c])
         held == IF UniqueAgentSeq THEN SameAgentSeq(c, row) ELSE {}
     IN
       \* an open transaction holds the key: the insert waits for it
       /\ \A t \in held : t.xmin \in {Committed, c} /\ t.xmax \in {NoTxn, c}
       /\ IF row.role \notin Roles
          THEN Catch(c, <<"INSERT", "check_violation">>) /\ UNCHANGED <<messages, idx>>
          ELSE IF held # {}
          THEN Catch(c, <<"INSERT", "unique_violation">>) /\ UNCHANGED <<messages, idx>>
          ELSE IF ~ReferencesAgent(row.agent_id)
          THEN Catch(c, <<"INSERT", "foreign_key_violation">>) /\ UNCHANGED <<messages, idx>>
          ELSE /\ messages' = messages \cup {NewRow(messages, row)}
               /\ idx' = [idx EXCEPT ![c] = idx[c] + 1]
               /\ pc' = [pc EXCEPT ![c] =
                           IF idx[c] + 1 < Len(call[c].messages) THEN "INSERT" ELSE "UPDATE"]
               /\ UNCHANGED caught
  /\ UNCHANGED <<sandboxVars, initVars, agents, tool_calls, snapshots, events, call, waitSet, upd, result>>

\* await client.query('UPDATE agents SET message_count = $1 WHERE agent_id = $2')
\* (waits for another open transaction that updated the same row)
saveMessages_UPDATE(c) ==
  /\ pc[c] = "UPDATE"
  /\ call[c].op = "saveMessages"
  /\ \A d \in Clients \ {c} : ~HoldsRowUpdate(d, call[c].agentId)
  /\ upd' = [upd EXCEPT ![c] = exists(call[c].agentId)]
  /\ pc' = [pc EXCEPT ![c] = "COMMIT"]
  /\ UNCHANGED <<sandboxVars, initVars, dbVars, events, call, idx, waitSet, caught, result>>

\* the agents table after connection c's transaction commits
CommitCount(c) ==
  IF upd[c]
  THEN {IF r.agent_id = call[c].agentId
        THEN [r EXCEPT !.message_count = Len(call[c].messages)] ELSE r : r \in agents}
  ELSE agents

\* await client.query('COMMIT'), then finally release
saveMessages_COMMIT(c) ==
  /\ pc[c] = "COMMIT"
  /\ call[c].op = "saveMessages"
  /\ messages' = CommitTxn(messages, c)
  /\ waitSet' = CommitWaits(messages, c)
  /\ agents' = CommitCount(c)
  /\ upd' = [upd EXCEPT ![c] = FALSE]
  /\ Settle(c, NoErr)
  /\ UNCHANGED <<sandboxVars, initVars, tool_calls, snapshots, events, call, idx, caught>>

\* catch (err) { await client.query('ROLLBACK'); throw err } finally release
saveMessages_ROLLBACK(c) ==
  /\ pc[c] = "ROLLBACK"
  /\ call[c].op = "saveMessages"
  /\ messages' = RollbackTxn(messages, c)
  /\ upd' = [upd EXCEPT ![c] = FALSE]
  /\ waitSet' = [waitSet EXCEPT ![c] = {}]
  /\ Settle(c, caught[c])
  /\ UNCHANGED <<sandboxVars, initVars, agents, tool_calls, snapshots, events, call, idx, caught>>

(***************************************************************************)
(* saveToolCallRecords(agentId, records)                                   *)
(***************************************************************************)
\* an optional numeric field that is undefined, and SQL NULL in a numeric
\* column
NoNumber == -1
NullNumber == -2

\* JavaScript truthiness of a numeric field
TruthyNum(n) == n \notin {NoNumber, NullNumber, 0}
\* n || null
NumOrNull(n) == IF TruthyNum(n) THEN n ELSE NullNumber
\* row.n || undefined
NumOrUndefined(n) == IF TruthyNum(n) THEN n ELSE NoNumber

ToolCall(id, state, trail, created) ==
  [id |-> id, name |-> "fs_read", input |-> "{path}", state |-> state,
   approval |-> "{required:false}", result |-> Undefined, error |-> Undefined,
   isError |-> FALSE, startedAt |-> NoNumber, completedAt |-> NoNumber,
   durationMs |-> NoNumber, createdAt |-> created, updatedAt |-> created,
   auditTrail |-> trail]

CallPending ==
  ToolCall("call_1", "PENDING", <<[state |-> "PENDING", timestamp |-> 1]>>, 1)
CallCompleted ==
  ToolCall("call_2", "COMPLETED",
           <<[state |-> "PENDING", timestamp |-> 1],
             [state |-> "COMPLETED", timestamp |-> 2]>>, 2)

\* records the store is handed: the same id with a trail that was cut back
\* to its first entry, with no trail, and with a trail behind the state
CallPendingCompleted ==
  ToolCall("call_1", "COMPLETED",
           <<[state |-> "PENDING", timestamp |-> 1],
             [state |-> "COMPLETED", timestamp |-> 2]>>, 1)
CallNoTrail == ToolCall("call_1", "PENDING", <<>>, 1)
CallStaleTrail ==
  ToolCall("call_1", "COMPLETED", <<[state |-> "PENDING", timestamp |-> 1]>>, 1)

\* the parameter list of the INSERT INTO tool_calls
RecordToRow(c, agentId, record) ==
  [id |-> record.id, agent_id |-> agentId, name |-> record.name,
   input |-> record.input, state |-> record.state, approval |-> record.approval,
   result |-> OrNull(record.result), error |-> OrNull(record.error),
   is_error |-> record.isError, started_at |-> NumOrNull(record.startedAt),
   completed_at |-> NumOrNull(record.completedAt),
   duration_ms |-> NumOrNull(record.durationMs),
   created_at |-> record.createdAt, updated_at |-> record.updatedAt,
   audit_trail |-> record.auditTrail, ver |-> 0, xmin |-> c, xmax |-> NoTxn]

RowToRecord(t) ==
  [id |-> t.id, name |-> t.name, input |-> t.input, state |-> t.state,
   approval |-> t.approval, result |-> OrUndefined(t.result),
   error |-> OrUndefined(t.error), isError |-> t.is_error,
   startedAt |-> NumOrUndefined(t.started_at),
   completedAt |-> NumOrUndefined(t.completed_at),
   durationMs |-> NumOrUndefined(t.duration_ms),
   createdAt |-> t.created_at, updatedAt |-> t.updated_at,
   auditTrail |-> t.audit_trail]

RECURSIVE OrderByCreatedAt(_)
\* ORDER BY created_at ASC
OrderByCreatedAt(S) ==
  IF S = {} THEN <<>>
  ELSE LET t == CHOOSE x \in S : \A y \in S : x.created_at <= y.created_at
       IN <<t>> \o OrderByCreatedAt(S \ {t})

loadToolCallRecords(a) ==
  LET rows == OrderByCreatedAt({t \in CommittedRows(tool_calls) : t.agent_id = a})
  IN [i \in 1..Len(rows) |-> RowToRecord(rows[i])]

\* const client = await this.pool.connect()
saveToolCallRecords_connect(c, a, R) ==
  /\ pc[c] = "idle"
  /\ pc' = [pc EXCEPT ![c] = "BEGIN"]
  /\ call' = [call EXCEPT ![c] = [NewCall("saveToolCallRecords", a) EXCEPT !.records = R]]
  /\ idx' = [idx EXCEPT ![c] = 0]
  /\ UNCHANGED <<sandboxVars, initVars, dbVars, events, waitSet, upd, caught, result>>

\* await client.query('BEGIN')
saveToolCallRecords_BEGIN(c) ==
  /\ pc[c] = "BEGIN"
  /\ call[c].op = "saveToolCallRecords"
  /\ pc' = [pc EXCEPT ![c] = "DELETE"]
  /\ UNCHANGED <<sandboxVars, initVars, dbVars, events, call, idx, waitSet, upd, caught, result>>

\* the statement after the DELETE: the first INSERT, or COMMIT
AfterDeleteRecords(c) == IF Len(call[c].records) > 0 THEN "INSERT" ELSE "COMMIT"

\* await client.query('DELETE FROM tool_calls WHERE agent_id = $1')
saveToolCallRecords_DELETE(c) ==
  /\ pc[c] = "DELETE"
  /\ call[c].op = "saveToolCallRecords"
  /\ LET seen == {t \in tool_calls : t.agent_id = call[c].agentId /\ VisibleTo(c, t)} IN
       IF ~TableExists("tool_calls")
       THEN /\ Catch(c, <<"DELETE", "undefined_table">>)
            /\ UNCHANGED <<tool_calls, waitSet>>
       ELSE IF \E t \in seen : LockedByOther(c, t)
       THEN /\ pc' = [pc EXCEPT ![c] = "DELETE_WAIT"]
            /\ waitSet' = [waitSet EXCEPT ![c] = {Ident(t) : t \in seen}]
            /\ UNCHANGED <<tool_calls, caught>>
       ELSE /\ tool_calls' = MarkDeleted(tool_calls, c, {Ident(t) : t \in seen})
            /\ pc' = [pc EXCEPT ![c] = AfterDeleteRecords(c)]
            /\ UNCHANGED <<waitSet, caught>>
  /\ UNCHANGED <<sandboxVars, initVars, agents, messages, snapshots, events, call, idx, upd, result>>

\* the waiting DELETE goes on with the rows of its snapshot that still exist
saveToolCallRecords_DELETE_resume(c) ==
  /\ pc[c] = "DELETE_WAIT"
  /\ call[c].op = "saveToolCallRecords"
  /\ \A t \in tool_calls : Ident(t) \in waitSet[c] /\ VisibleTo(c, t) => ~LockedByOther(c, t)
  /\ tool_calls' = MarkDeleted(tool_calls, c, waitSet[c])
  /\ waitSet' = [waitSet EXCEPT ![c] = {}]
  /\ pc' = [pc EXCEPT ![c] = AfterDeleteRecords(c)]
  /\ UNCHANGED <<sandboxVars, initVars, agents, messages, snapshots, events, call, idx, upd,
                 caught, result>>

\* rows that hold the primary key id of row against an insert by c: the key
\* spans the whole table, not one agent
SameId(c, row) == {t \in tool_calls : t.id = row.id /\ t.xmax # c}

\* await client.query(INSERT INTO tool_calls ..) for the next record
saveToolCallRecords_INSERT(c) ==
  /\ pc[c] = "INSERT"
  /\ call[c].op = "saveToolCallRecords"
  /\ idx[c] < Len(call[c].records)
  /\ LET row == RecordToRow(c, call[c].agentId, call[c].records[idx[c] + 1])
         held == SameId(c, row)
     IN
       /\ \A t \in held : t.xmin \in {Committed, c} /\ t.xmax \in {NoTxn, c}
       /\ IF held # {}
          THEN Catch(c, <<"INSERT", "unique_violation">>) /\ UNCHANGED <<tool_calls, idx>>
          ELSE IF ~ReferencesAgent(row.agent_id)
          THEN Catch(c, <<"INSERT", "foreign_key_violation">>) /\ UNCHANGED <<tool_calls, idx>>
          ELSE /\ tool_calls' = tool_calls \cup {NewRow(tool_calls, row)}
               /\ idx' = [idx EXCEPT ![c] = idx[c] + 1]
               /\ pc' = [pc EXCEPT ![c] =
                           IF idx[c] + 1 < Len(call[c].records) THEN "INSERT" ELSE "COMMIT"]
               /\ UNCHANGED caught
  /\ UNCHANGED <<sandboxVars, initVars, agents, messages, snapshots, events, call, waitSet, upd, result>>

\* await client.query('COMMIT'), then finally release
saveToolCallRecords_COMMIT(c) ==
  /\ pc[c] = "COMMIT"
  /\ call[c].op = "saveToolCallRecords"
  /\ tool_calls' = CommitTxn(tool_calls, c)
  /\ waitSet' = CommitWaits(tool_calls, c)
  /\ Settle(c, NoErr)
  /\ UNCHANGED <<sandboxVars, initVars, agents, messages, snapshots, events, call, idx, upd, caught>>

\* catch (err) { await client.query('ROLLBACK'); throw err } finally release
saveToolCallRecords_ROLLBACK(c) ==
  /\ pc[c] = "ROLLBACK"
  /\ call[c].op = "saveToolCallRecords"
  /\ tool_calls' = RollbackTxn(tool_calls, c)
  /\ waitSet' = [waitSet EXCEPT ![c] = {}]
  /\ Settle(c, caught[c])
  /\ UNCHANGED <<sandboxVars, initVars, agents, messages, snapshots, events, call, idx, upd, caught>>

(***************************************************************************)
(* A query of an open transaction rejects because the connection to the    *)
(* server is lost.  The server ends the transaction of a lost connection   *)
(* by rolling it back; a later query on that client rejects too.           *)
(***************************************************************************)
TxnStatements == {"BEGIN", "DELETE", "DELETE_WAIT", "INSERT", "UPDATE", "COMMIT"}

\* the awaited client.query(..) inside try rejects: control passes to catch
query_rejects(c) ==
  /\ pc[c] \in TxnStatements
  /\ Catch(c, <<IF pc[c] = "DELETE_WAIT" THEN "DELETE" ELSE pc[c], "connection">>)
  /\ UNCHANGED <<sandboxVars, initVars, dbVars, events, call, idx, waitSet, upd, result>>

\* await client.query('ROLLBACK') rejects inside catch: `throw err` is never
\* reached and the call rejects with the error of the ROLLBACK
ROLLBACK_rejects(c) ==
  /\ pc[c] = "ROLLBACK"
  /\ messages' = RollbackTxn(messages, c)
  /\ tool_calls' = RollbackTxn(tool_calls, c)
  /\ upd' = [upd EXCEPT ![c] = FALSE]
  /\ waitSet' = [waitSet EXCEPT ![c] = {}]
  /\ Settle(c, <<"ROLLBACK", "connection">>)
  /\ UNCHANGED <<sandboxVars, initVars, agents, snapshots, events, call, idx, caught>>

(***************************************************************************)
(* saveSnapshot(agentId, snapshot), loadSnapshot, listSnapshots            *)
(***************************************************************************)
Snap(id, M, created) ==
  [id |-> id, messages |-> M, lastSfpIndex |-> Len(M) - 1, lastBookmark |-> "{seq:0}",
   createdAt |-> created, metadata |-> Undefined]

SnapshotToRow(agentId, snapshot) ==
  [agent_id |-> agentId, snapshot_id |-> snapshot.id, messages |-> snapshot.messages,
   last_sfp_index |-> snapshot.lastSfpIndex, last_bookmark |-> snapshot.lastBookmark,
   created_at |-> snapshot.createdAt, metadata |-> OrNull(snapshot.metadata)]

\* a snapshot row that points at the agent's live messages instead of
\* holding its own copy
RowToSnapshotLive(r) ==
  [id |-> r.snapshot_id, messages |-> loadMessages(r.agent_id),
   lastSfpIndex |-> r.last_sfp_index, lastBookmark |-> r.last_bookmark,
   createdAt |-> TimestampToJs(r.created_at), metadata |-> OrUndefined(r.metadata)]

RowToSnapshot(r) ==
  [id |-> r.snapshot_id, messages |-> r.messages, lastSfpIndex |-> r.last_sfp_index,
   lastBookmark |-> r.last_bookmark, createdAt |-> TimestampToJs(r.created_at),
   metadata |-> OrUndefined(r.metadata)]

\* a write that keeps only the newest snapshot of an agent
ReplaceSnapshots(rows, row) == {r \in rows : r.agent_id # row.agent_id} \cup {row}

\* a plain INSERT into a table that has no primary key
InsertSnapshot(rows, row) == rows \cup {row}

\* INSERT .. ON CONFLICT (agent_id, snapshot_id) DO UPDATE SET the rest
UpsertSnapshot(rows, row) ==
  {r \in rows : ~(r.agent_id = row.agent_id /\ r.snapshot_id = row.snapshot_id)} \cup {row}

\* const client = await this.pool.connect()
saveSnapshot_connect(c, a, snapshot) ==
  /\ pc[c] = "idle"
  /\ pc' = [pc EXCEPT ![c] = "UPSERT_SNAPSHOT"]
  /\ call' = [call EXCEPT ![c] = [NewCall("saveSnapshot", a) EXCEPT !.snapshot = snapshot]]
  /\ UNCHANGED <<sandboxVars, initVars, dbVars, events, idx, waitSet, upd, caught, result>>

\* await client.query(INSERT INTO snapshots ..), then finally release
saveSnapshot_query(c) ==
  /\ pc[c] = "UPSERT_SNAPSHOT"
  /\ IF ~TableExists("snapshots")
     THEN Settle(c, <<"INSERT", "undefined_table">>) /\ UNCHANGED snapshots
     ELSE IF ~ReferencesAgent(call[c].agentId)
     THEN Settle(c, <<"INSERT", "foreign_key_violation">>) /\ UNCHANGED snapshots
     ELSE /\ snapshots' = UpsertSnapshot(snapshots, SnapshotToRow(call[c].agentId, call[c].snapshot))
          /\ Settle(c, NoErr)
  /\ UNCHANGED <<sandboxVars, initVars, agents, messages, tool_calls, events, call, idx, waitSet,
                 upd, caught>>

\* the snapshots of agent a (listSnapshots returns them by created_at DESC)
listSnapshots(a) == {RowToSnapshot(r) : r \in {x \in snapshots : x.agent_id = a}}

\* SELECT .. FROM snapshots WHERE agent_id = $1 AND snapshot_id = $2
loadSnapshot(a, id) ==
  LET rows == {x \in snapshots : x.agent_id = a /\ x.snapshot_id = id}
  IN IF rows = {} THEN NoSnapshot ELSE RowToSnapshot(CHOOSE r \in rows : TRUE)

(***************************************************************************)
(* The file store behind appendEvent / readEvents / delete.                *)
(***************************************************************************)
\* this.fileStore.appendEvent(agentId, timeline)
appendEvent(c, a, timeline) ==
  /\ pc[c] = "idle"
  /\ Len(events[a]) < MaxEvents
  /\ events' = [events EXCEPT ![a] = Append(events[a], timeline)]
  /\ UNCHANGED <<sandboxVars, initVars, dbVars, pc, call, idx, waitSet, upd, caught, result>>

\* this.fileStore.readEvents(agentId) with no filter
readEvents(a) == events[a]

Channels == {"progress", "control", "monitor"}

\* the event the timeline router appends next for agent a: its seq is one
\* more than the last one's
Event(a, channel) == [channel |-> channel, seq |-> Len(events[a])]

\* a reader that starts at the bookmark's event instead of after it
MatchesFromBookmark(e, since, channel) ==
  /\ channel # Undefined => e.channel = channel
  /\ since # NoNumber => e.seq >= since

\* the filter of readEvents: the requested channel, and past the bookmark
Matches(e, since, channel) ==
  /\ channel # Undefined => e.channel = channel
  /\ since # NoNumber => e.seq > since

\* yield* this.fileStore.readEvents(agentId, {since, channel}): the events of
\* the timeline, as it is when the call is made, that pass the filter, in
\* the order they were appended (since is the bookmark's seq)
readEventsSince(a, since, channel) ==
  SelectSeq(events[a], LAMBDA e : Matches(e, since, channel))

(***************************************************************************)
(* delete(agentId)                                                         *)
(***************************************************************************)
\* const client = await this.pool.connect()
delete_connect(c, a) ==
  /\ pc[c] = "idle"
  /\ pc' = [pc EXCEPT ![c] = "DELETE_AGENT"]
  /\ call' = [call EXCEPT ![c] = NewCall("delete", a)]
  /\ UNCHANGED <<sandboxVars, initVars, dbVars, events, idx, waitSet, upd, caught, result>>

\* a foreign key declared without ON DELETE CASCADE and not enforced
CascadeNone(tbl, a) == tbl

\* a cascade that is not restricted to the deleted agent
CascadeAll(tbl, a) == IF exists(a) THEN {} ELSE tbl

\* ON DELETE CASCADE: the rows of tbl that reference a deleted agents row go
\* with it
Cascade(tbl, a) == IF exists(a) THEN {t \in tbl : t.agent_id # a} ELSE tbl

\* a delete that treats an agent without a row as an error
delete_query_NotFound(c) ==
  /\ pc[c] = "DELETE_AGENT"
  /\ LET a == call[c].agentId IN
       IF AgentRow(a) = {}
       THEN /\ Settle(c, <<"DELETE", "not_found">>)
            /\ UNCHANGED <<dbVars, idx>>
       ELSE /\ agents' = agents \ AgentRow(a)
            /\ messages' = Cascade(messages, a)
            /\ tool_calls' = Cascade(tool_calls, a)
            /\ snapshots' = Cascade(snapshots, a)
            /\ idx' = [idx EXCEPT ![c] = 1]
            /\ pc' = [pc EXCEPT ![c] = "FILE_DELETE"]
            /\ UNCHANGED result
  /\ UNCHANGED <<sandboxVars, initVars, events, call, waitSet, upd, caught>>

\* await client.query('DELETE FROM agents WHERE agent_id = $1'): one
\* statement that commits by itself; it waits for open transactions that
\* hold locks on the agents row or on rows the cascade deletes
delete_query(c) ==
  /\ pc[c] = "DELETE_AGENT"
  /\ LET a == call[c].agentId IN
       IF ~TableExists("agents")
       THEN /\ Settle(c, <<"DELETE", "undefined_table">>)
            /\ UNCHANGED <<dbVars, idx>>
       ELSE /\ \A d \in Clients \ {c} :
                 ~HoldsRowUpdate(d, a) /\ ~HoldsKeyShare(d, a) /\ ~HoldsRowDelete(d, a)
            /\ agents' = agents \ AgentRow(a)
            /\ messages' = Cascade(messages, a)
            /\ tool_calls' = Cascade(tool_calls, a)
            /\ snapshots' = Cascade(snapshots, a)
            \* the rowCount of the statement's result, which delete() ignores
            /\ idx' = [idx EXCEPT ![c] = Cardinality(AgentRow(a))]
            /\ pc' = [pc EXCEPT ![c] = "FILE_DELETE"]
            /\ UNCHANGED result
  /\ UNCHANGED <<sandboxVars, initVars, events, call, waitSet, upd, caught>>

\* await this.fileStore.delete(agentId), then finally release
delete_fileStore(c) ==
  /\ pc[c] = "FILE_DELETE"
  /\ events' = [events EXCEPT ![call[c].agentId] = <<>>]
  /\ Settle(c, NoErr)
  /\ UNCHANGED <<sandboxVars, initVars, dbVars, call, idx, waitSet, upd, caught>>

\* this.fileStore.delete(agentId) rejects (an I/O error): finally releases
\* the client and delete() rejects
delete_fileStore_rejects(c) ==
  /\ pc[c] = "FILE_DELETE"
  /\ Settle(c, <<"fileStore.delete", "io">>)
  /\ UNCHANGED <<sandboxVars, initVars, dbVars, events, call, idx, waitSet, upd, caught>>

\* the process dies: every call in flight stops where it is, and the server
\* rolls back the transactions of the connections it loses
crash ==
  /\ \E c \in Clients : pc[c] \notin {"idle", "done", "crashed"}
  /\ pc' = [c \in Clients |-> "crashed"]
  /\ messages' = {t \in {[u EXCEPT !.xmax = IF u.xmax \in Clients THEN NoTxn ELSE u.xmax] :
                           u \in messages} : t.xmin = Committed}
  /\ tool_calls' = {t \in {[u EXCEPT !.xmax = IF u.xmax \in Clients THEN NoTxn ELSE u.xmax] :
                             u \in tool_calls} : t.xmin = Committed}
  /\ upd' = [c \in Clients |-> FALSE]
  /\ waitSet' = [c \in Clients |-> {}]
  /\ UNCHANGED <<sandboxVars, initVars, agents, snapshots, events, call, idx, caught, result>>

(***************************************************************************)
(* list(prefix)                                                            *)
(***************************************************************************)
\* the characters of an agent id
Chars(id) ==
  CASE id = "agt:1" -> <<"a", "g", "t", ":", "1">>
    [] id = "agt:2" -> <<"a", "g", "t", ":", "2">>

\* a TIMESTAMP as seconds since the epoch, the order ORDER BY sorts by
Instant(ts) ==
  CASE ts = "2024-01-01T00:00:00.000Z" -> 1704067200
    [] ts = "2024-01-02T00:00:00.000Z" -> 1704153600

RECURSIVE Like(_, _)
\* s LIKE p: % stands for any run of characters, _ for any one character,
\* a backslash takes the next character of the pattern literally
Like(s, p) ==
  IF p = <<>> THEN s = <<>>
  ELSE IF Head(p) = "%"
  THEN \E k \in 0..Len(s) : Like(SubSeq(s, k + 1, Len(s)), Tail(p))
  ELSE IF Head(p) = "_"
  THEN s # <<>> /\ Like(Tail(s), Tail(p))
  ELSE IF Head(p) = "\\" /\ Len(p) >= 2
  THEN s # <<>> /\ Head(s) = p[2] /\ Like(Tail(s), SubSeq(p, 3, Len(p)))
  ELSE s # <<>> /\ Head(s) = Head(p) /\ Like(Tail(s), Tail(p))

\* the rows the query of list selects: every row when prefix is falsy,
\* else WHERE agent_id LIKE `${prefix}%`
ListRows(prefix) ==
  IF prefix # <<>>
  THEN {r \in agents : Like(Chars(r.agent_id), prefix \o <<"%">>)}
  ELSE agents

\* the results list(prefix) can return: the selected ids ORDER BY created_at
\* DESC, rows of equal created_at in an order the server picks
list(prefix) ==
  LET rows == ListRows(prefix)
      n == Cardinality(rows)
      orders == {f \in [1..n -> rows] :
                   /\ \A i, j \in 1..n : i # j => f[i] # f[j]
                   /\ \A i, j \in 1..n :
                        i < j => Instant(f[i].created_at) >= Instant(f[j].created_at)}
  IN {[i \in 1..n |-> f[i].agent_id] : f \in orders}

(***************************************************************************)
(* snapshot(agentId) and fork(snapshot, newAgentId) of the Snapshot/Fork   *)
(* engine, which call the store.                                           *)
(***************************************************************************)
\* the ids in a lineage
Ancestors(lineage) == {lineage[i] : i \in 1..Len(lineage)}

\* an agent id that was never given to an agent
Fresh(b) == ~exists(b) /\ \A r \in agents : b \notin Ancestors(r.lineage)

\* snapshot(a): reads the current messages and writes a Snapshot
snapshot(c, a, id) ==
  /\ exists(a)
  /\ saveSnapshot_connect(c, a, Snap(id, loadMessages(a), "2024-01-02T00:00:00.000Z"))

\* the AgentInfo fork writes for the new agent b from snapshot s of agent a
ForkInfo(a, s, b) ==
  [agentId |-> b, templateId |-> loadInfo(a).templateId,
   createdAt |-> "2024-01-02T00:00:00.000Z",
   configVersion |-> loadInfo(a).configVersion,
   lineage |-> Append(loadInfo(a).lineage, a), messageCount |-> Len(s.messages),
   lastSfpIndex |-> s.lastSfpIndex, lastBookmark |-> s.lastBookmark,
   breakpoint |-> Undefined, metadata |-> "{}"]

\* fork, first write: the AgentInfo of a new agent b
fork_saveInfo(c, a, id, b) ==
  /\ exists(a)
  /\ loadSnapshot(a, id) # NoSnapshot
  /\ Fresh(b)
  /\ saveInfo_connect(c, b, ForkInfo(a, loadSnapshot(a, id), b))

\* fork, second write: the snapshot's messages, copied to the new agent
fork_saveMessages(c, a, id, b) ==
  /\ exists(a) /\ exists(b)
  /\ loadSnapshot(a, id) # NoSnapshot
  /\ loadInfo(b).lineage = Append(loadInfo(a).lineage, a)
  /\ saveMessages_connect(c, b, loadSnapshot(a, id).messages)

(***************************************************************************)
(* acquireAgentLock(agentId, timeoutMs)                                    *)
(***************************************************************************)
\* PostgresStore declares no acquireAgentLock (nor does the Store
\* interface): store.acquireAgentLock is undefined, and calling it throws a
\* TypeError before anything is awaited.  No lock is taken on the server.
acquireAgentLock(c, a) ==
  /\ pc[c] = "idle"
  /\ call' = [call EXCEPT ![c] = NewCall("acquireAgentLock", a)]
  /\ Settle(c, <<"acquireAgentLock", "not_a_function">>)
  /\ UNCHANGED <<sandboxVars, initVars, dbVars, events, idx, waitSet, upd, caught>>

\* caller c was granted the lock of agent a and has not released it
HoldsAgentLock(c, a) ==
  pc[c] = "done" /\ call[c].op = "acquireAgentLock" /\ call[c].agentId = a /\ result[c] = NoErr

(***************************************************************************)
(* aggregateStats(agentId)                                                 *)
(***************************************************************************)
RECURSIVE ToDecimal(_)
\* the decimal digits node-postgres hands back for a bigint (COUNT(*) is a
\* bigint, returned as a string)
ToDecimal(n) == IF n < 10 THEN <<n>> ELSE ToDecimal(n \div 10) \o <<n % 10>>

RECURSIVE parseInt(_)
\* parseInt(text) of a string of decimal digits
parseInt(digits) ==
  IF digits = <<>> THEN 0
  ELSE 10 * parseInt(SubSeq(digits, 1, Len(digits) - 1)) + digits[Len(digits)]

\* a count that takes in the rows of every agent
CountAllRows(rows, a) == ToDecimal(Cardinality(rows))

\* SELECT COUNT(*) as total FROM .. WHERE agent_id = $1
CountRows(rows, a) == ToDecimal(Cardinality({t \in rows : t.agent_id = a}))

\* SELECT col, COUNT(*) as count FROM tool_calls WHERE agent_id = $1 GROUP BY
\* col: one row per value of the column that occurs
GroupBy(rows, a, col) ==
  {[key |-> k, count |-> ToDecimal(Cardinality({t \in rows : t.agent_id = a /\ t[col] = k}))] :
     k \in {t[col] : t \in {u \in rows : u.agent_id = a}}}

\* rows.reduce((acc, row) => { acc[row.key] = parseInt(row.count); .. }, {})
Reduce(rows) ==
  [k \in {r.key : r \in rows} |-> parseInt((CHOOSE r \in rows : r.key = k).count)]

StatsQueries ==
  <<"COUNT_MESSAGES", "COUNT_TOOL_CALLS", "COUNT_SNAPSHOTS", "GROUP_BY_NAME",
    "GROUP_BY_STATE">>

\* the table each query of aggregateStats reads
StatsTable(q) ==
  CASE q = "COUNT_MESSAGES" -> "messages"
    [] q = "COUNT_SNAPSHOTS" -> "snapshots"
    [] OTHER -> "tool_calls"

\* what one query of aggregateStats returns: it runs on a connection with no
\* open transaction and sees the committed rows
StatsResult(q, a) ==
  CASE q = "COUNT_MESSAGES" -> CountRows(CommittedRows(messages), a)
    [] q = "COUNT_TOOL_CALLS" -> CountRows(CommittedRows(tool_calls), a)
    [] q = "COUNT_SNAPSHOTS" -> CountRows(snapshots, a)
    [] q = "GROUP_BY_NAME" -> GroupBy(CommittedRows(tool_calls), a, "name")
    [] q = "GROUP_BY_STATE" -> GroupBy(CommittedRows(tool_calls), a, "state")

\* const client = await this.pool.connect()
aggregateStats_connect(c, a) ==
  /\ pc[c] = "idle"
  /\ pc' = [pc EXCEPT ![c] = StatsQueries[1]]
  /\ call' = [call EXCEPT ![c] = NewCall("aggregateStats", a)]
  /\ UNCHANGED <<sandboxVars, initVars, dbVars, events, idx, waitSet, upd, caught, result>>

\* the next await client.query(..) of the five; after the last one the
\* return value is built and finally releases the client
aggregateStats_query(c) ==
  /\ call[c].op = "aggregateStats"
  /\ \E i \in 1..Len(StatsQueries) :
       /\ pc[c] = StatsQueries[i]
       /\ IF ~TableExists(StatsTable(pc[c]))
          THEN Settle(c, <<pc[c], "undefined_table">>) /\ UNCHANGED call
          ELSE /\ call' = [call EXCEPT ![c].rows =
                             Append(call[c].rows, StatsResult(pc[c], call[c].agentId))]
               /\ IF i < Len(StatsQueries)
                  THEN pc' = [pc EXCEPT ![c] = StatsQueries[i + 1]] /\ UNCHANGED result
                  ELSE Settle(c, NoErr)
  /\ UNCHANGED <<sandboxVars, initVars, dbVars, events, idx, waitSet, upd, caught>>

\* the AgentStats a resolved aggregateStats call of caller c returns
AgentStats(c) ==
  [totalMessages |-> parseInt(call[c].rows[1]),
   totalToolCalls |-> parseInt(call[c].rows[2]),
   totalSnapshots |-> parseInt(call[c].rows[3]),
   avgMessagesPerSession |-> parseInt(call[c].rows[1]),
   toolCallsByName |-> Reduce(call[c].rows[4]),
   toolCallsByState |-> Reduce(call[c].rows[5])]

(***************************************************************************)
(* querySessions, queryMessages, queryToolCalls: one SELECT each, with the *)
(* agentId filter and the pagination; the other filters are left undefined.*)
(***************************************************************************)
Filter(agentId, limit, offset) == [agentId |-> agentId, limit |-> limit, offset |-> offset]

\* the sequences that hold every element of the set S once
Orders(S) ==
  {f \in [1..Cardinality(S) -> S] : \A i, j \in 1..Cardinality(S) : i # j => f[i] # f[j]}

\* if (filters.agentId) sql += ' AND agent_id = $n'
WhereAgent(rows, filters) ==
  IF Truthy(filters.agentId) THEN {t \in rows : t.agent_id = filters.agentId} ELSE rows

\* if (filters.limit) { LIMIT; if (filters.offset) OFFSET }: without a truthy
\* limit the statement carries neither clause
Paginate(rows, filters) ==
  IF TruthyNum(filters.limit)
  THEN LET skip == IF TruthyNum(filters.offset) THEN filters.offset ELSE 0
           last == IF skip + filters.limit < Len(rows) THEN skip + filters.limit ELSE Len(rows)
       IN SubSeq(rows, skip + 1, last)
  ELSE rows

\* the SessionInfo of a row (breakpoint is handed on as the column holds it)
RowToSession(r) ==
  [agentId |-> r.agent_id, templateId |-> r.template_id,
   createdAt |-> TimestampToJs(r.created_at), messageCount |-> r.message_count,
   lastSfpIndex |-> r.last_sfp_index, breakpoint |-> r.breakpoint]

\* the results querySessions(filters) can return: ORDER BY created_at DESC
\* (the default sort), rows of equal created_at in an order the server picks
querySessions(filters) ==
  LET sorted == {f \in Orders(WhereAgent(agents, filters)) :
                   \A i, j \in 1..Len(f) :
                     i < j => Instant(f[i].created_at) >= Instant(f[j].created_at)}
  IN {[i \in 1..Len(Paginate(f, filters)) |-> RowToSession(Paginate(f, filters)[i])] :
        f \in sorted}

\* the results queryMessages(filters) can return: ORDER BY created_at DESC,
\* where created_at is the Date.now() of each INSERT, which one millisecond
\* can give to any number of rows
queryMessages(filters) ==
  {[i \in 1..Len(Paginate(f, filters)) |-> RowToMessage(Paginate(f, filters)[i])] :
     f \in Orders(WhereAgent(CommittedRows(messages), filters))}

\* the results queryToolCalls(filters) can return: ORDER BY created_at DESC
queryToolCalls(filters) ==
  LET sorted == {f \in Orders(WhereAgent(CommittedRows(tool_calls), filters)) :
                   \A i, j \in 1..Len(f) : i < j => f[i].created_at >= f[j].created_at}
  IN {[i \in 1..Len(Paginate(f, filters)) |-> RowToRecord(Paginate(f, filters)[i])] :
        f \in sorted}

(***************************************************************************)
(* await this.pool.connect() on a pool whose clients can all be checked    *)
(* out.  A caller holds a client from connect() to the release in finally; *)
(* a request that finds no idle client and no room for a new one is queued *)
(* and served as soon as a client is released, before any later request.   *)
(***************************************************************************)
\* a catch block that rethrows with no finally: the client of a call that
\* failed stays checked out
InUseAfterCatch ==
  {c \in Clients : pc[c] \notin {"idle", "done", "crashed", "CONNECT"}}
    \cup {c \in Clients : pc[c] = "done" /\ caught[c] # NoErr}

\* the callers that hold a client of the pool
InUse == {c \in Clients : pc[c] \notin {"idle", "done", "crashed", "CONNECT"}}

\* connect() can hand out a client at once
FreeConnection == Cardinality(InUse) < pool.max

\* a pool that hands a released client to whoever asks next
QueueIgnored == TRUE

\* no request is waiting in the pool's queue
QueueEmpty == \A d \in Clients : pc[d] # "CONNECT"

\* the first statement a call runs on its client
FirstStatement(op) ==
  CASE op = "saveInfo" -> "UPSERT_AGENT"
    [] op = "saveMessages" -> "BEGIN"
    [] op = "saveToolCallRecords" -> "BEGIN"
    [] op = "saveSnapshot" -> "UPSERT_SNAPSHOT"
    [] op = "delete" -> "DELETE_AGENT"
    [] op = "aggregateStats" -> StatsQueries[1]

\* const client = await this.pool.connect() while every client is checked
\* out: the request waits in the queue
pool_connect_queue(c, newCall) ==
  /\ pc[c] = "idle"
  /\ ~FreeConnection
  /\ pc' = [pc EXCEPT ![c] = "CONNECT"]
  /\ call' = [call EXCEPT ![c] = newCall]
  /\ idx' = [idx EXCEPT ![c] = 0]
  /\ UNCHANGED <<sandboxVars, initVars, dbVars, events, waitSet, upd, caught, result>>

\* a client was released: the queued connect() resolves with it
pool_connect_acquire(c) ==
  /\ pc[c] = "CONNECT"
  /\ FreeConnection
  /\ pc' = [pc EXCEPT ![c] = FirstStatement(call[c].op)]
  /\ UNCHANGED <<sandboxVars, initVars, dbVars, events, call, idx, waitSet, upd, caught, result>>

\* connectionTimeoutMillis has passed with the request still queued:
\* connect() rejects, and the call with it (no client to release)
pool_connect_timeout(c) ==
  /\ pc[c] = "CONNECT"
  /\ pool.connectionTimeoutMillis > 0
  /\ Settle(c, <<"connect", "timeout">>)
  /\ UNCHANGED <<sandboxVars, initVars, dbVars, events, call, idx, waitSet, upd, caught>>

(***************************************************************************)
(* The breakpoint of an agent.  The runtime that moves it is not part of   *)
(* the store; it is modelled as the specification describes it, and every  *)
(* move is persisted with saveInfo and read back with loadInfo.            *)
(***************************************************************************)
\* the state an agent is in: RUNNING when no breakpoint is set
BreakpointOf(a) ==
  IF ~exists(a) THEN "none"
  ELSE IF loadInfo(a).breakpoint = Undefined THEN "RUNNING"
  ELSE loadInfo(a).breakpoint

\* the tool call of agent a that needs a decision
ApprovalCall(a, state) ==
  [ToolCall(IF a = "agt:1" THEN "call_1" ELSE "call_2", state,
            <<[state |-> "PENDING", timestamp |-> 1]>>, 1)
     EXCEPT !.approval = "{required:true}"]

\* agent a has a persisted tool call that waits for a decision
RequiresApproval(a) ==
  \E t \in CommittedRows(tool_calls) :
    t.agent_id = a /\ t.approval = "{required:true}" /\ t.state = "PENDING"

\* the tool call of agent a was allowed or denied
Decided(a) ==
  \E t \in CommittedRows(tool_calls) :
    t.agent_id = a /\ t.approval = "{required:true}" /\ t.state \in {"APPROVED", "DENIED"}

\* a runtime that pauses an agent whatever state it is in
MayPauseAlways(a) == exists(a)

\* a pause is taken by an agent that runs
MayPause(a) == BreakpointOf(a) = "RUNNING"

\* a tool call of a running agent enters the approval-required state
toolCall(c, a) ==
  /\ BreakpointOf(a) = "RUNNING"
  /\ ~RequiresApproval(a)
  /\ saveToolCallRecords_connect(c, a, <<ApprovalCall(a, "PENDING")>>)

\* the agent stops at the breakpoint and asks for the decision
permission_required(c, a) ==
  /\ BreakpointOf(a) = "RUNNING"
  /\ RequiresApproval(a)
  /\ saveInfo_connect(c, a, Info(a, 0, "AWAITING_APPROVAL"))

\* agent.decide(id, 'allow' | 'deny'): the decision is recorded
decide(c, a, decision) ==
  /\ BreakpointOf(a) = "AWAITING_APPROVAL"
  /\ RequiresApproval(a)
  /\ saveToolCallRecords_connect(
       c, a, <<ApprovalCall(a, IF decision = "allow" THEN "APPROVED" ELSE "DENIED")>>)

\* the agent resumes after the decision
decide_resume(c, a) ==
  /\ BreakpointOf(a) = "AWAITING_APPROVAL"
  /\ Decided(a)
  /\ saveInfo_connect(c, a, Info(a, 0, Undefined))

\* an external request to pause
pause(c, a) ==
  /\ MayPause(a)
  /\ saveInfo_connect(c, a, Info(a, 0, "PAUSED"))

\* an external request to resume
resume(c, a) ==
  /\ BreakpointOf(a) = "PAUSED"
  /\ saveInfo_connect(c, a, Info(a, 0, Undefined))

(***************************************************************************)
(* E2BSandbox: init, the calls that need the instance, and exec(cmd).      *)
(***************************************************************************)
\* withRetry(fn, maxRetries = 3)
MaxRetries == 3

\* what e2b.commands.run settles with: a result, or an error it throws
\* (exitCode NoNumber: the error has no exitCode)
Outcome(kind, name, status, exitCode, stdout, stderr, message) ==
  [kind |-> kind, name |-> name, status |-> status, exitCode |-> exitCode,
   stdout |-> stdout, stderr |-> stderr, message |-> message]

Outcomes ==
  {Outcome("result", "", 0, 0, "hello", "", ""),
   Outcome("result", "", 0, 0, Undefined, Undefined, ""),
   Outcome("error", "CommandExitError", 0, 42, "", "exit 42", "Command failed"),
   Outcome("error", "CommandExitError", 0, 2, Undefined, Undefined, "Command failed"),
   Outcome("error", "TimeoutError", 0, NoNumber, Undefined, Undefined, "timed out"),
   Outcome("error", "Error", 0, NoNumber, Undefined, Undefined, ""),
   Outcome("error", "RateLimitError", 0, NoNumber, Undefined, Undefined, "rate limit"),
   Outcome("error", "Error", 429, NoNumber, Undefined, Undefined, "too many requests")}

\* x || ''
OrEmpty(v) == IF Truthy(v) THEN v ELSE ""

\* a test that takes every error for a rate-limit failure
isAnyError(error) == TRUE

\* error.name === 'RateLimitError' || error.status === 429
isRateLimit(error) == error.name = "RateLimitError" \/ error.status = 429

\* the value of the try block
ExecResult(r) ==
  [code |-> r.exitCode, stdout |-> OrEmpty(r.stdout), stderr |-> OrEmpty(r.stderr)]

\* a catch block that reports every failure as code 1
CatchCodeOne(error) ==
  [code |-> 1, stdout |-> "",
   stderr |-> IF Truthy(error.message) THEN error.message
              ELSE "E2B command execution failed"]

\* the value of the catch block
CatchResult(error) ==
  IF error.exitCode # NoNumber
  THEN [code |-> error.exitCode, stdout |-> OrEmpty(error.stdout),
        stderr |-> IF Truthy(error.stderr) THEN error.stderr ELSE OrEmpty(error.message)]
  ELSE [code |-> 1, stdout |-> "",
        stderr |-> IF Truthy(error.message) THEN error.message
                   ELSE "E2B command execution failed"]

\* a getE2BInstance() that hands back the null reference instead of throwing
ReturnsNull == <<"resolved", Null>>

\* the error of getE2BInstance() when this.e2b is null
NotInitialized == <<"rejected", "E2BSandbox not initialized. Call init() first.">>

\* init(): E2BSdk.connect or E2BSdk.create resolves with a running sandbox
E2BSandbox_init ==
  /\ e2b = Null
  /\ e2b' = "test-sandbox-123"
  /\ killed' = FALSE
  /\ UNCHANGED <<watchCount, watchers, handles, stops, initVars, dbVars, events, pc, call,
                 idx, waitSet, upd, caught, result>>

\* a sandbox call as it is issued, with whether the instance was there
SandboxCall(op) ==
  [NewCall(op, "") EXCEPT
     !.issued = IF e2b = Null THEN "uninitialized" ELSE "initialized"]

\* getE2BInstance(), getSandboxId(), getHostUrl(port) and setTimeout(ms):
\* each throws what getE2BInstance() throws; with the instance, setTimeout
\* settles as the SDK call does
E2BSandbox_get(c, op) ==
  /\ pc[c] = "idle"
  /\ call' = [call EXCEPT ![c] = SandboxCall(op)]
  /\ IF e2b = Null
     THEN Settle(c, NotInitialized)
     ELSE \/ Settle(c, <<"resolved", e2b>>)
          \/ op = "setTimeout" /\ Settle(c, <<"rejected", "SandboxError">>)
  /\ UNCHANGED <<sandboxVars, initVars, dbVars, events, idx, waitSet, upd, caught>>

\* fs.read, fs.write and fs.stat reach the instance through the host's
\* getE2BInstance() and settle as the SDK call does
E2BFS_call(c, op) ==
  /\ pc[c] = "idle"
  /\ call' = [call EXCEPT ![c] = SandboxCall(op)]
  /\ IF e2b = Null
     THEN Settle(c, NotInitialized)
     ELSE \/ Settle(c, <<"resolved", e2b>>)
          \/ Settle(c, <<"rejected", "File not found">>)
  /\ UNCHANGED <<sandboxVars, initVars, dbVars, events, idx, waitSet, upd, caught>>

\* exec(cmd) up to the first commands.run: getE2BInstance() throws, outside
\* the try block, when the sandbox is not initialized
exec_getE2BInstance(c) ==
  /\ pc[c] = "idle"
  /\ idx' = [idx EXCEPT ![c] = 0]
  /\ IF e2b = Null
     THEN Settle(c, NotInitialized)
     ELSE pc' = [pc EXCEPT ![c] = "RUN"] /\ UNCHANGED result
  /\ call' = [call EXCEPT ![c] = SandboxCall("exec")]
  /\ UNCHANGED <<sandboxVars, initVars, dbVars, events, waitSet, upd, caught>>

\* one attempt of withRetry: await fn() settles; a rate-limit error before
\* the last attempt is followed by the delay, every other error is thrown to
\* the catch block of exec
exec_run(c) ==
  /\ pc[c] = "RUN"
  /\ call[c].op = "exec"
  /\ \E o \in Outcomes :
       /\ call' = [call EXCEPT ![c].rows = Append(@, o)]
       /\ IF o.kind = "result"
          THEN Settle(c, <<"resolved", ExecResult(o)>>)
          ELSE IF isRateLimit(o) /\ idx[c] < MaxRetries - 1
               THEN pc' = [pc EXCEPT ![c] = "SLEEP"] /\ UNCHANGED result
               ELSE Settle(c, <<"resolved", CatchResult(o)>>)
  /\ UNCHANGED <<sandboxVars, initVars, dbVars, events, idx, waitSet, upd, caught>>

\* await new Promise((r) => setTimeout(r, Math.pow(2, i) * 1000)); continue
exec_setTimeout(c) ==
  /\ pc[c] = "SLEEP"
  /\ pc' = [pc EXCEPT ![c] = "RUN"]
  /\ idx' = [idx EXCEPT ![c] = @ + 1]
  /\ UNCHANGED <<sandboxVars, initVars, dbVars, events, call, waitSet, upd, caught, result>>

(***************************************************************************)
(* E2BSandbox: watchFiles, unwatchFiles and dispose.                       *)
(***************************************************************************)
MaxHandles == 3
MaxWatchers == 2

\* the registry without the watcher of that id: this.watchers.delete(id)
Unregister(id) == SelectSeq(watchers, LAMBDA w : w.id # id)

\* watchFiles(paths, listener) up to the first watchDir: the instance is
\* read and the id is made; dirs are the parent directories of the paths
watchFiles_getE2BInstance(c, dirs) ==
  /\ pc[c] = "idle"
  /\ call' = [call EXCEPT ![c] = [SandboxCall("watchFiles") EXCEPT !.args = dirs]]
  /\ IF e2b = Null
     THEN /\ Settle(c, NotInitialized)
          /\ UNCHANGED <<watchCount, idx>>
     ELSE /\ watchCount < MaxWatchers
          /\ watchCount' = watchCount + 1
          /\ idx' = [idx EXCEPT ![c] = watchCount + 1]
          /\ pc' = [pc EXCEPT ![c] = "WATCHDIR"]
          /\ UNCHANGED result
  /\ UNCHANGED <<e2b, killed, watchers, handles, stops, initVars, dbVars, events, waitSet,
                 upd, caught>>

\* await e2b.files.watchDir(dir, ..) settles: a handle that is pushed to the
\* local array and, after the last directory, registered under the id; or a
\* rejection that watchFiles rejects with
watchFiles_watchDir(c) ==
  /\ pc[c] = "WATCHDIR"
  /\ \/ /\ Len(handles) < MaxHandles
        /\ handles' = Append(handles, "open")
        /\ call' = [call EXCEPT ![c].rows = Append(@, Len(handles) + 1),
                                ![c].args = Tail(@)]
        /\ IF Len(call[c].args) = 1
           THEN /\ watchers' = Append(watchers,
                                      [id |-> idx[c],
                                       handles |-> Append(call[c].rows, Len(handles) + 1)])
                /\ Settle(c, <<"resolved", idx[c]>>)
           ELSE UNCHANGED <<watchers, pc, result>>
     \/ /\ Settle(c, <<"rejected", "watchDir">>)
        /\ UNCHANGED <<watchers, handles, call>>
  /\ UNCHANGED <<e2b, killed, watchCount, stops, initVars, dbVars, events, idx, waitSet,
                 upd, caught>>

\* unwatchFiles(id): entry.stop() is started and not awaited, the entry is
\* deleted
unwatchFiles(id) ==
  /\ \E i \in 1..Len(watchers) :
       /\ watchers[i].id = id
       /\ stops' = stops \cup {watchers[i].handles}
  /\ watchers' = Unregister(id)
  /\ UNCHANGED <<e2b, killed, watchCount, handles, initVars, dbVars, events, pc, call, idx,
                 waitSet, upd, caught, result>>

\* for (const h of handles) await h.stop(), as started by unwatchFiles: the
\* stop() of the next handle settles; a rejection ends the loop and is
\* swallowed by .catch(() => {})
unwatchFiles_stop ==
  /\ \E t \in stops :
       \/ /\ handles' = [handles EXCEPT ![Head(t)] = "stopped"]
          /\ stops' = (stops \ {t}) \cup (IF Len(t) > 1 THEN {Tail(t)} ELSE {})
       \/ /\ stops' = stops \ {t}
          /\ UNCHANGED handles
  /\ UNCHANGED <<e2b, killed, watchCount, watchers, initVars, dbVars, events, pc, call, idx,
                 waitSet, upd, caught, result>>

\* the entries of this.watchers.values() that the loop of dispose has not
\* come to yet (a Map iterator also comes to entries set after it began)
Unvisited(c) ==
  {i \in 1..Len(watchers) :
     \A j \in 1..Len(call[c].rows) : call[c].rows[j] # watchers[i].id}

\* dispose() is called
dispose_call(c) ==
  /\ pc[c] = "idle"
  /\ call' = [call EXCEPT ![c] = SandboxCall("dispose")]
  /\ pc' = [pc EXCEPT ![c] = "STOP"]
  /\ UNCHANGED <<sandboxVars, initVars, dbVars, events, idx, waitSet, upd, caught, result>>

\* for (const entry of this.watchers.values()): entry.stop() is called
dispose_next(c) ==
  /\ pc[c] = "STOP"
  /\ call[c].args = <<>>
  /\ Unvisited(c) # {}
  /\ LET i == CHOOSE k \in Unvisited(c) : \A l \in Unvisited(c) : k <= l
     IN call' = [call EXCEPT ![c].rows = Append(@, watchers[i].id),
                             ![c].args = watchers[i].handles]
  /\ UNCHANGED <<sandboxVars, initVars, dbVars, events, pc, idx, waitSet, upd, caught, result>>

\* await entry.stop().catch(() => {}): the stop() of the entry's next handle
\* settles; a rejection ends the entry's loop and is swallowed
dispose_stop(c) ==
  /\ pc[c] = "STOP"
  /\ call[c].args # <<>>
  /\ \/ /\ handles' = [handles EXCEPT ![Head(call[c].args)] = "stopped"]
        /\ call' = [call EXCEPT ![c].args = Tail(@)]
     \/ /\ call' = [call EXCEPT ![c].args = <<>>]
        /\ UNCHANGED handles
  /\ UNCHANGED <<e2b, killed, watchCount, watchers, stops, initVars, dbVars, events, pc, idx,
                 waitSet, upd, caught, result>>

\* the loop is over: this.watchers.clear(); if (this.e2b) this.e2b.kill() is
\* called
dispose_clear(c) ==
  /\ pc[c] = "STOP"
  /\ call[c].args = <<>>
  /\ Unvisited(c) = {}
  /\ watchers' = <<>>
  /\ IF e2b # Null
     THEN pc' = [pc EXCEPT ![c] = "KILL"] /\ UNCHANGED result
     ELSE Settle(c, <<"resolved", Null>>)
  /\ UNCHANGED <<e2b, killed, watchCount, handles, stops, initVars, dbVars, events, call, idx,
                 waitSet, upd, caught>>

\* await this.e2b.kill() settles: this.e2b = null, or dispose rejects
dispose_kill(c) ==
  /\ pc[c] = "KILL"
  /\ \/ /\ killed' = TRUE
        /\ e2b' = Null
        /\ Settle(c, <<"resolved", Null>>)
     \/ /\ Settle(c, <<"rejected", "SandboxError">>)
        /\ UNCHANGED <<e2b, killed>>
  /\ UNCHANGED <<watchCount, watchers, handles, stops, initVars, dbVars, events, call, idx,
                 waitSet, upd, caught>>

(***************************************************************************)
(* Specifications.  Each one is the store under one kind of caller; the    *)
(* disjuncts are the steps of the calls those callers make.                *)
(***************************************************************************)
MessageLists == SeqsUpTo({MsgUser, MsgAssistant}, MaxLen)

\* lists whose last message the role CHECK of the messages table rejects
RejectedLists == {Append(M, MsgBadRole) : M \in SeqsUpTo({MsgUser}, MaxLen - 1)}

RecordLists == SeqsUpTo({CallPending, CallCompleted}, MaxLen)

\* one caller that saves AgentInfo and message lists, from construction on
NextMessages ==
  \/ initialize
  \/ \E a \in AgentIds : saveInfo_connect("c1", a, Info(a, 0, Undefined))
  \/ saveInfo_query("c1")
  \/ \E a \in AgentIds, M \in MessageLists : saveMessages_connect("c1", a, M)
  \/ saveMessages_BEGIN("c1")
  \/ saveMessages_DELETE("c1")
  \/ saveMessages_INSERT("c1")
  \/ saveMessages_UPDATE("c1")
  \/ saveMessages_COMMIT("c1")
  \/ saveMessages_ROLLBACK("c1")
  \/ return("c1")

SpecMessages == Init /\ [][NextMessages]_vars

\* one caller that saves and replaces the message list of one agent, seen
\* by readers at every step
NextReaders ==
  \/ initialize
  \/ saveInfo_connect("c1", "agt:1", Info("agt:1", 0, Undefined))
  \/ saveInfo_query("c1")
  \/ \E M \in MessageLists : saveMessages_connect("c1", "agt:1", M)
  \/ saveMessages_BEGIN("c1")
  \/ saveMessages_DELETE("c1")
  \/ saveMessages_INSERT("c1")
  \/ saveMessages_UPDATE("c1")
  \/ saveMessages_COMMIT("c1")
  \/ saveMessages_ROLLBACK("c1")
  \/ return("c1")

SpecReaders == Init /\ [][NextReaders]_vars

\* one caller that writes from construction on, without waiting for
\* initPromise, while initialize() runs and can fail
NextInit ==
  \/ initialize
  \/ initialize_reject
  \/ \E a \in AgentIds : saveInfo_connect("c1", a, Info(a, 0, Undefined))
  \/ saveInfo_query("c1")
  \/ \E a \in AgentIds, M \in SeqsUpTo({MsgUser}, MaxLen - 1) :
       saveMessages_connect("c1", a, M)
  \/ saveMessages_BEGIN("c1")
  \/ saveMessages_DELETE("c1")
  \/ saveMessages_INSERT("c1")
  \/ saveMessages_UPDATE("c1")
  \/ saveMessages_COMMIT("c1")
  \/ saveMessages_ROLLBACK("c1")
  \/ return("c1")

SpecInit == Init /\ [][NextInit]_vars

\* one caller whose transactional writes can fail: on a constraint (a bad
\* role, a repeated tool-call id, an agent that has no row) or on a lost
\* connection
NextRollback ==
  \/ initialize
  \/ saveInfo_connect("c1", "agt:1", Info("agt:1", 0, Undefined))
  \/ saveInfo_query("c1")
  \/ \E a \in AgentIds, M \in {<<>>, <<MsgUser>>} \cup RejectedLists :
       saveMessages_connect("c1", a, M)
  \/ saveMessages_BEGIN("c1")
  \/ saveMessages_DELETE("c1")
  \/ saveMessages_INSERT("c1")
  \/ saveMessages_UPDATE("c1")
  \/ saveMessages_COMMIT("c1")
  \/ saveMessages_ROLLBACK("c1")
  \/ \E a \in AgentIds, R \in RecordLists : saveToolCallRecords_connect("c1", a, R)
  \/ saveToolCallRecords_BEGIN("c1")
  \/ saveToolCallRecords_DELETE("c1")
  \/ saveToolCallRecords_INSERT("c1")
  \/ saveToolCallRecords_COMMIT("c1")
  \/ saveToolCallRecords_ROLLBACK("c1")
  \/ query_rejects("c1")
  \/ ROLLBACK_rejects("c1")
  \/ return("c1")

SpecRollback == Init /\ [][NextRollback]_vars

\* AgentInfo values a caller passes: every optional field set and unset, a
\* lineage, and an info.agentId that is or is not the agentId argument
Infos ==
  {[Info(b, n, bp) EXCEPT !.lineage = l, !.lastBookmark = bm] :
     b \in AgentIds, n \in 0..1, bp \in {Undefined, "PAUSED"},
     l \in {<<>>, <<"agt:0">>}, bm \in {Undefined, "{seq:1}"}}

\* one caller that saves AgentInfo
NextInfo ==
  \/ initialize
  \/ \E a \in AgentIds, info \in Infos : saveInfo_connect("c1", a, info)
  \/ saveInfo_query("c1")
  \/ return("c1")

SpecInfo == Init /\ [][NextInfo]_vars

\* one caller that fills an agent (events only for an agent that has its
\* AgentInfo) and deletes it; the file store can fail and the process can die
NextDelete ==
  \/ initialize
  \/ \E a \in AgentIds : saveInfo_connect("c1", a, Info(a, 0, Undefined))
  \/ saveInfo_query("c1")
  \/ \E a \in AgentIds : saveMessages_connect("c1", a, <<MsgUser>>)
  \/ saveMessages_BEGIN("c1")
  \/ saveMessages_DELETE("c1")
  \/ saveMessages_INSERT("c1")
  \/ saveMessages_UPDATE("c1")
  \/ saveMessages_COMMIT("c1")
  \/ saveMessages_ROLLBACK("c1")
  \/ \E a \in AgentIds : saveToolCallRecords_connect("c1", a, <<CallPending>>)
  \/ saveToolCallRecords_BEGIN("c1")
  \/ saveToolCallRecords_DELETE("c1")
  \/ saveToolCallRecords_INSERT("c1")
  \/ saveToolCallRecords_COMMIT("c1")
  \/ saveToolCallRecords_ROLLBACK("c1")
  \/ \E a \in AgentIds : saveSnapshot_connect("c1", a, Snap("snap:1", <<MsgUser>>, "2024-01-02T00:00:00.000Z"))
  \/ saveSnapshot_query("c1")
  \/ \E a \in AgentIds :
       exists(a) /\ appendEvent("c1", a, [channel |-> "control", seq |-> Len(events[a])])
  \/ \E a \in AgentIds : delete_connect("c1", a)
  \/ delete_query("c1")
  \/ delete_fileStore("c1")
  \/ delete_fileStore_rejects("c1")
  \/ crash
  \/ return("c1")

SpecDelete == Init /\ [][NextDelete]_vars

\* two callers that wait for initPromise, create the agent once and then
\* save message lists for it at the same time
NextConcurrent ==
  \/ initialize
  \/ \E c \in Clients :
       \/ /\ Initialized
          /\ ~exists("agt:1")
          /\ \A d \in Clients : pc[d] = "idle"
          /\ saveInfo_connect(c, "agt:1", Info("agt:1", 0, Undefined))
       \/ saveInfo_query(c)
       \/ \E M \in MessageLists :
            Initialized /\ exists("agt:1") /\ saveMessages_connect(c, "agt:1", M)
       \/ saveMessages_BEGIN(c)
       \/ saveMessages_DELETE(c)
       \/ saveMessages_DELETE_resume(c)
       \/ saveMessages_INSERT(c)
       \/ saveMessages_UPDATE(c)
       \/ saveMessages_COMMIT(c)
       \/ saveMessages_ROLLBACK(c)
       \/ return(c)

SpecConcurrent == Init /\ [][NextConcurrent]_vars

\* prefixes a caller passes to list: none, literal ones, and ones that hold
\* the characters LIKE reads as wildcards
Prefixes ==
  {<<>>, <<"a">>, <<"a", "g", "t", ":", "1">>, <<"b">>, <<"a", "_">>,
   <<"%", "2">>, <<"a", "g", "t", "\\">>}

Stamps == {"2024-01-01T00:00:00.000Z", "2024-01-02T00:00:00.000Z"}

\* one caller that creates agents at different times and deletes them,
\* after initialization, with list read in every state
NextList ==
  \/ initialize
  \/ \E a \in AgentIds, ts \in Stamps, n \in 0..1 :
       Initialized /\ saveInfo_connect("c1", a, [Info(a, n, Undefined) EXCEPT !.createdAt = ts])
  \/ saveInfo_query("c1")
  \/ \E a \in AgentIds : Initialized /\ delete_connect("c1", a)
  \/ delete_query("c1")
  \/ delete_fileStore("c1")
  \/ return("c1")

SpecList == Init /\ [][NextList]_vars

SnapshotIds == {"snap:1"}

\* snapshots a caller saves: the same id with two contents
Snapshots ==
  {Snap("snap:1", <<>>, "2024-01-01T00:00:00.000Z"),
   Snap("snap:1", <<MsgUser>>, "2024-01-02T00:00:00.000Z")}

\* one caller that, after initialization, writes and rewrites everything
\* two agents own and deletes them
NextAgents ==
  \/ initialize
  \/ \E a \in AgentIds : \E info \in {Info(a, 0, Undefined), Info(a, 1, "PAUSED")} :
       Initialized /\ saveInfo_connect("c1", a, info)
  \/ saveInfo_query("c1")
  \/ \E a \in AgentIds, M \in SeqsUpTo({MsgUser}, MaxLen) :
       Initialized /\ saveMessages_connect("c1", a, M)
  \/ saveMessages_BEGIN("c1")
  \/ saveMessages_DELETE("c1")
  \/ saveMessages_INSERT("c1")
  \/ saveMessages_UPDATE("c1")
  \/ saveMessages_COMMIT("c1")
  \/ saveMessages_ROLLBACK("c1")
  \/ \E a \in AgentIds, R \in {<<>>, <<CallPending>>} :
       Initialized /\ saveToolCallRecords_connect("c1", a, R)
  \/ saveToolCallRecords_BEGIN("c1")
  \/ saveToolCallRecords_DELETE("c1")
  \/ saveToolCallRecords_INSERT("c1")
  \/ saveToolCallRecords_COMMIT("c1")
  \/ saveToolCallRecords_ROLLBACK("c1")
  \/ \E a \in AgentIds, s \in Snapshots : Initialized /\ saveSnapshot_connect("c1", a, s)
  \/ saveSnapshot_query("c1")
  \/ \E a \in AgentIds : Initialized /\ delete_connect("c1", a)
  \/ delete_query("c1")
  \/ delete_fileStore("c1")
  \/ return("c1")

SpecAgents == Init /\ [][NextAgents]_vars

\* one caller that, after initialization, creates root agents, saves their
\* messages, snapshots them and forks the snapshots into new agents
NextFork ==
  \/ initialize
  \/ \E a \in AgentIds, l \in {<<>>, <<"agt:0">>} :
       /\ Initialized
       /\ Fresh(a)
       /\ saveInfo_connect("c1", a, [Info(a, 0, Undefined) EXCEPT !.lineage = l])
  \/ saveInfo_query("c1")
  \/ \E a \in AgentIds, M \in SeqsUpTo({MsgUser}, MaxLen) :
       Initialized /\ exists(a) /\ saveMessages_connect("c1", a, M)
  \/ saveMessages_BEGIN("c1")
  \/ saveMessages_DELETE("c1")
  \/ saveMessages_INSERT("c1")
  \/ saveMessages_UPDATE("c1")
  \/ saveMessages_COMMIT("c1")
  \/ \E a \in AgentIds, id \in SnapshotIds : Initialized /\ snapshot("c1", a, id)
  \/ saveSnapshot_query("c1")
  \/ \E a, b \in AgentIds, id \in SnapshotIds : Initialized /\ fork_saveInfo("c1", a, id, b)
  \/ \E a, b \in AgentIds, id \in SnapshotIds : Initialized /\ fork_saveMessages("c1", a, id, b)
  \/ \E a \in AgentIds : Initialized /\ delete_connect("c1", a)
  \/ delete_query("c1")
  \/ delete_fileStore("c1")
  \/ return("c1")

SpecFork == Init /\ [][NextFork]_vars

\* two workers that call acquireAgentLock as the production guide shows
NextLock ==
  \/ initialize
  \/ initialize_reject
  \/ \E c \in Clients, a \in AgentIds : acquireAgentLock(c, a)
  \/ \E c \in Clients : return(c)

SpecLock == Init /\ [][NextLock]_vars

\* one caller that, after initialization, saves the tool-call records of an
\* agent again and again
NextToolCalls ==
  \/ initialize
  \/ \E a \in AgentIds : Initialized /\ saveInfo_connect("c1", a, Info(a, 0, Undefined))
  \/ saveInfo_query("c1")
  \/ \E a \in AgentIds,
        R \in {<<>>, <<CallPending>>, <<CallPendingCompleted>>, <<CallNoTrail>>,
               <<CallStaleTrail>>, <<CallPendingCompleted, CallCompleted>>} :
       Initialized /\ saveToolCallRecords_connect("c1", a, R)
  \/ saveToolCallRecords_BEGIN("c1")
  \/ saveToolCallRecords_DELETE("c1")
  \/ saveToolCallRecords_INSERT("c1")
  \/ saveToolCallRecords_COMMIT("c1")
  \/ saveToolCallRecords_ROLLBACK("c1")
  \/ return("c1")

SpecToolCalls == Init /\ [][NextToolCalls]_vars

\* a tool call of another tool
CallBash == [CallCompleted EXCEPT !.name = "bash_run"]

\* one caller that, after initialization, fills two agents and asks for the
\* statistics of either
NextStats ==
  \/ initialize
  \/ \E a \in AgentIds : Initialized /\ saveInfo_connect("c1", a, Info(a, 0, Undefined))
  \/ saveInfo_query("c1")
  \/ \E a \in AgentIds, M \in SeqsUpTo({MsgUser}, MaxLen) :
       Initialized /\ saveMessages_connect("c1", a, M)
  \/ saveMessages_BEGIN("c1")
  \/ saveMessages_DELETE("c1")
  \/ saveMessages_INSERT("c1")
  \/ saveMessages_UPDATE("c1")
  \/ saveMessages_COMMIT("c1")
  \/ saveMessages_ROLLBACK("c1")
  \/ \E a \in AgentIds,
        R \in {<<>>, <<CallPending>>, <<CallPending, CallBash>>, <<CallPending, CallCompleted>>} :
       Initialized /\ saveToolCallRecords_connect("c1", a, R)
  \/ saveToolCallRecords_BEGIN("c1")
  \/ saveToolCallRecords_DELETE("c1")
  \/ saveToolCallRecords_INSERT("c1")
  \/ saveToolCallRecords_COMMIT("c1")
  \/ saveToolCallRecords_ROLLBACK("c1")
  \/ \E a \in AgentIds :
       Initialized /\ saveSnapshot_connect("c1", a, Snap("snap:1", <<>>, "2024-01-01T00:00:00.000Z"))
  \/ saveSnapshot_query("c1")
  \/ \E a \in AgentIds : Initialized /\ aggregateStats_connect("c1", a)
  \/ aggregateStats_query("c1")
  \/ return("c1")

SpecStats == Init /\ [][NextStats]_vars

\* filters a caller passes to the three queries: with and without agentId,
\* limit and offset
Filters ==
  {Filter(a, n, m) : a \in AgentIds \cup {Undefined}, n \in {NoNumber} \cup (0..MaxLen),
                     m \in {NoNumber, 0, 1}}

\* two callers that, after initialization, run saveInfo calls at the same
\* time as Promise.all does: every call of a batch is issued before any
\* result is taken, and results are taken once every call has settled
NextSaveInfos ==
  \/ initialize
  \/ \E c \in Clients, a \in AgentIds : \E b \in AgentIds, n \in 0..1, bp \in {Undefined, "PAUSED"} :
       /\ Initialized
       /\ \A d \in Clients : pc[d] # "done"
       /\ saveInfo_connect(c, a, Info(b, n, bp))
  \/ \E c \in Clients : saveInfo_query(c)
  \/ \E c \in Clients : (\A d \in Clients : pc[d] \in {"idle", "done"}) /\ return(c)

SpecSaveInfos == Init /\ [][NextSaveInfos]_vars

\* one caller that, after initialization, saves snapshots of two ids and
\* goes on writing AgentInfo, messages, tool-call records and snapshots of
\* two agents, and deletes them
NextSnapshots ==
  \/ initialize
  \/ \E a \in AgentIds : Initialized /\ saveInfo_connect("c1", a, Info(a, 0, Undefined))
  \/ saveInfo_query("c1")
  \/ \E a \in AgentIds, M \in {<<>>, <<MsgUser>>} :
       Initialized /\ saveMessages_connect("c1", a, M)
  \/ saveMessages_BEGIN("c1")
  \/ saveMessages_DELETE("c1")
  \/ saveMessages_INSERT("c1")
  \/ saveMessages_UPDATE("c1")
  \/ saveMessages_COMMIT("c1")
  \/ saveMessages_ROLLBACK("c1")
  \/ \E a \in AgentIds : Initialized /\ saveToolCallRecords_connect("c1", a, <<CallPending>>)
  \/ saveToolCallRecords_BEGIN("c1")
  \/ saveToolCallRecords_DELETE("c1")
  \/ saveToolCallRecords_INSERT("c1")
  \/ saveToolCallRecords_COMMIT("c1")
  \/ saveToolCallRecords_ROLLBACK("c1")
  \/ \E a \in AgentIds,
        s \in {Snap("snap:1", <<>>, "2024-01-01T00:00:00.000Z"),
               Snap("snap:2", <<MsgUser>>, "2024-01-02T00:00:00.000Z")} :
       Initialized /\ saveSnapshot_connect("c1", a, s)
  \/ saveSnapshot_query("c1")
  \/ \E a \in AgentIds : Initialized /\ delete_connect("c1", a)
  \/ delete_query("c1")
  \/ delete_fileStore("c1")
  \/ return("c1")

SpecSnapshots == Init /\ [][NextSnapshots]_vars

\* one caller that, after initialization, creates agents, appends events of
\* the three channels to their timelines and deletes them, with readEvents
\* read in every state
NextEvents ==
  \/ initialize
  \/ \E a \in AgentIds : Initialized /\ saveInfo_connect("c1", a, Info(a, 0, Undefined))
  \/ saveInfo_query("c1")
  \/ \E a \in AgentIds, ch \in Channels :
       Initialized /\ exists(a) /\ appendEvent("c1", a, Event(a, ch))
  \/ \E a \in AgentIds : Initialized /\ delete_connect("c1", a)
  \/ delete_query("c1")
  \/ delete_fileStore("c1")
  \/ return("c1")

SpecEvents == Init /\ [][NextEvents]_vars

\* pools a connectionConfig can ask for: one or two clients, with and
\* without a connection timeout
InitPool ==
  /\ pool \in {[max |-> n, connectionTimeoutMillis |-> t] : n \in 1..2, t \in {0, 5000}}
  /\ InitStore

\* two callers of saveInfo, saveMessages and delete on one agent, on a pool
\* that has a client for each of them or for one of them only
NextPool ==
  \/ initialize
  \/ \E c \in Clients :
       \/ /\ Initialized /\ FreeConnection /\ QueueEmpty
          /\ \/ saveInfo_connect(c, "agt:1", Info("agt:1", 0, Undefined))
             \/ \E M \in {<<>>, <<MsgUser>>} : saveMessages_connect(c, "agt:1", M)
             \/ delete_connect(c, "agt:1")
       \/ /\ Initialized
          /\ \/ pool_connect_queue(c, [NewCall("saveInfo", "agt:1") EXCEPT
                                        !.info = Info("agt:1", 0, Undefined)])
             \/ \E M \in {<<>>, <<MsgUser>>} :
                  pool_connect_queue(c, [NewCall("saveMessages", "agt:1") EXCEPT !.messages = M])
             \/ pool_connect_queue(c, NewCall("delete", "agt:1"))
       \/ pool_connect_acquire(c)
       \/ pool_connect_timeout(c)
       \/ saveInfo_query(c)
       \/ saveMessages_BEGIN(c)
       \/ saveMessages_DELETE(c)
       \/ saveMessages_DELETE_resume(c)
       \/ saveMessages_INSERT(c)
       \/ saveMessages_UPDATE(c)
       \/ saveMessages_COMMIT(c)
       \/ saveMessages_ROLLBACK(c)
       \/ delete_query(c)
       \/ delete_fileStore(c)
       \/ return(c)

\* a step of a call that has its client: the server answers every
\* statement, and one that waits for a row lock is next in line for it when
\* the holder's transaction ends, ahead of statements issued later
StatementStep(c) ==
  \/ saveInfo_query(c)
  \/ saveMessages_BEGIN(c)
  \/ saveMessages_DELETE(c)
  \/ saveMessages_DELETE_resume(c)
  \/ saveMessages_INSERT(c)
  \/ saveMessages_UPDATE(c)
  \/ saveMessages_COMMIT(c)
  \/ saveMessages_ROLLBACK(c)
  \/ delete_query(c)
  \/ delete_fileStore(c)

\* the pool serves or times out a queued request and the server answers;
\* nothing obliges a caller to call or to take a settled result
SpecPool ==
  /\ InitPool
  /\ [][NextPool]_vars
  /\ \A c \in Clients :
       /\ WF_vars(pool_connect_acquire(c) \/ pool_connect_timeout(c))
       /\ SF_vars(StatementStep(c))

\* the runtime of two agents on one store: tool calls that need approval,
\* decisions, pauses and resumes
NextBreakpoint ==
  \/ initialize
  \/ \E a \in AgentIds :
       Initialized /\ ~exists(a) /\ saveInfo_connect("c1", a, Info(a, 0, Undefined))
  \/ \E a \in AgentIds : toolCall("c1", a)
  \/ \E a \in AgentIds : permission_required("c1", a)
  \/ \E a \in AgentIds, decision \in {"allow", "deny"} : decide("c1", a, decision)
  \/ \E a \in AgentIds : decide_resume("c1", a)
  \/ \E a \in AgentIds : pause("c1", a)
  \/ \E a \in AgentIds : resume("c1", a)
  \/ saveInfo_query("c1")
  \/ saveToolCallRecords_BEGIN("c1")
  \/ saveToolCallRecords_DELETE("c1")
  \/ saveToolCallRecords_INSERT("c1")
  \/ saveToolCallRecords_COMMIT("c1")
  \/ return("c1")

SpecBreakpoint == Init /\ [][NextBreakpoint]_vars

\* two callers of exec on one sandbox that is initialized and disposed of
NextSandbox ==
  \/ E2BSandbox_init
  \/ \E c \in Clients : dispose_call(c)
  \/ \E c \in Clients : dispose_clear(c)
  \/ \E c \in Clients : dispose_kill(c)
  \/ \E c \in Clients : exec_getE2BInstance(c)
  \/ \E c \in Clients : exec_run(c)
  \/ \E c \in Clients : exec_setTimeout(c)
  \/ \E c \in Clients : return(c)

SpecSandbox == Init /\ [][NextSandbox]_vars

\* one caller of every operation that needs the instance, and one that
\* disposes of the sandbox, on a sandbox that is initialized in between
NextInstance ==
  \/ E2BSandbox_init
  \/ \E op \in {"getE2BInstance", "getSandboxId", "getHostUrl", "setTimeout"} :
       E2BSandbox_get("c1", op)
  \/ \E op \in {"fs.read", "fs.write", "fs.stat"} : E2BFS_call("c1", op)
  \/ exec_getE2BInstance("c1")
  \/ exec_run("c1")
  \/ exec_setTimeout("c1")
  \/ \E dirs \in {<<"a">>, <<"a", "b">>} : watchFiles_getE2BInstance("c1", dirs)
  \/ watchFiles_watchDir("c1")
  \/ dispose_call("c2")
  \/ dispose_next("c2")
  \/ dispose_stop("c2")
  \/ dispose_clear("c2")
  \/ dispose_kill("c2")
  \/ \E c \in Clients : return(c)

SpecInstance == Init /\ [][NextInstance]_vars

\* one caller of watchFiles and one of dispose on a sandbox, with
\* unwatchFiles calls in between
NextWatch ==
  \/ E2BSandbox_init
  \/ \E dirs \in {<<"a">>, <<"a", "b">>} : watchFiles_getE2BInstance("c1", dirs)
  \/ watchFiles_watchDir("c1")
  \/ \E id \in 1..MaxWatchers : unwatchFiles(id)
  \/ unwatchFiles_stop
  \/ dispose_call("c2")
  \/ dispose_next("c2")
  \/ dispose_stop("c2")
  \/ dispose_clear("c2")
  \/ dispose_kill("c2")
  \/ \E c \in Clients : return(c)

SpecWatch == Init /\ [][NextWatch]_vars

\* the callers of SpecPool on a server whose connection can be lost at any
\* statement, at the ROLLBACK of the catch block too, and a file store whose
\* delete can fail
NextRelease ==
  \/ NextPool
  \/ \E c \in Clients : query_rejects(c)
  \/ \E c \in Clients : ROLLBACK_rejects(c)
  \/ \E c \in Clients : delete_fileStore_rejects(c)

SpecRelease == InitPool /\ [][NextRelease]_vars

\* one caller that saves the tool-call records of an agent again and again
\* while another asks for the statistics of that agent
NextStatsConcurrent ==
  \/ initialize
  \/ Initialized /\ ~exists("agt:1") /\ saveInfo_connect("c1", "agt:1", Info("agt:1", 0, Undefined))
  \/ saveInfo_query("c1")
  \/ \E R \in {<<>>, <<CallPending>>, <<CallPending, CallBash>>, <<CallPending, CallCompleted>>} :
       Initialized /\ exists("agt:1") /\ saveToolCallRecords_connect("c1", "agt:1", R)
  \/ saveToolCallRecords_BEGIN("c1")
  \/ saveToolCallRecords_DELETE("c1")
  \/ saveToolCallRecords_INSERT("c1")
  \/ saveToolCallRecords_COMMIT("c1")
  \/ Initialized /\ aggregateStats_connect("c2", "agt:1")
  \/ aggregateStats_query("c2")
  \/ \E c \in Clients : return(c)

SpecStatsConcurrent == Init /\ [][NextStatsConcurrent]_vars

\* a tool call that ran and took time, and one whose times, duration, error
\* and result are set to values that are falsy in JavaScript
CallTimed ==
  [CallCompleted EXCEPT !.startedAt = 5, !.completedAt = 7, !.durationMs = 2,
                        !.result = "{ok:true}"]
CallInstant ==
  [CallCompleted EXCEPT !.startedAt = 0, !.completedAt = 0, !.durationMs = 0,
                        !.error = "", !.result = ""]

\* one caller that saves one tool-call record of an agent at a time
NextToolCallFields ==
  \/ initialize
  \/ \E a \in AgentIds : Initialized /\ saveInfo_connect("c1", a, Info(a, 0, Undefined))
  \/ saveInfo_query("c1")
  \/ \E a \in AgentIds, R \in {<<CallPending>>, <<CallTimed>>, <<CallInstant>>} :
       Initialized /\ saveToolCallRecords_connect("c1", a, R)
  \/ saveToolCallRecords_BEGIN("c1")
  \/ saveToolCallRecords_DELETE("c1")
  \/ saveToolCallRecords_INSERT("c1")
  \/ saveToolCallRecords_COMMIT("c1")
  \/ saveToolCallRecords_ROLLBACK("c1")
  \/ return("c1")

SpecToolCallFields == Init /\ [][NextToolCallFields]_vars

(***************************************************************************)
(* Properties.                                                             *)
(***************************************************************************)
WriteOps == {"saveInfo", "saveMessages", "saveToolCallRecords", "saveSnapshot"}
TxnOps == {"saveMessages", "saveToolCallRecords"}

\* caller c's call of op has settled and c has not yet gone on
Done(c, op) == pc[c] = "done" /\ call[c].op = op
Ok(c) == result[c] = NoErr
Rejected(c) == result[c] # NoErr

\* C1: while a saveMessages(a, M) call is under way, every step leaves what a
\* reader of agent a gets (the message list and messageCount) either as it
\* was or makes it exactly M with count Len(M): no reader sees an emptied
\* list, a part of M, or new messages with the old count.
C1_SaveMessagesAtomicToReaders ==
  [][\A c \in Clients :
       (call[c].op = "saveMessages" /\ pc[c] \notin {"idle", "done"}) =>
         LET a == call[c].agentId
             M == call[c].messages
         IN \/ /\ loadMessages(a)' = loadMessages(a)
               /\ messageCount(a)' = messageCount(a)
            \/ /\ loadMessages(a)' = M
               /\ messageCount(a)' = Len(M)]_vars

\* a reader still gets the old, non-empty list and the old count while the
\* call has deleted it and inserted a different non-empty list
C1_Witness ==
  \E c \in Clients :
    /\ call[c].op = "saveMessages"
    /\ pc[c] = "COMMIT"
    /\ call[c].messages # <<>>
    /\ loadMessages(call[c].agentId) # <<>>
    /\ loadMessages(call[c].agentId) # call[c].messages
    /\ messageCount(call[c].agentId) = Len(loadMessages(call[c].agentId))
    /\ \E t \in messages : t.xmax = c
    /\ \E t \in messages : t.xmin = c

\* C2: when saveMessages(a, M) has resolved for an agent that has its
\* AgentInfo, loadMessages(a) is M in the same order and messageCount is
\* Len(M).
C2_SaveThenLoadMessages ==
  \A c \in Clients :
    (Done(c, "saveMessages") /\ Ok(c) /\ exists(call[c].agentId)) =>
      /\ loadMessages(call[c].agentId) = call[c].messages
      /\ messageCount(call[c].agentId) = Len(call[c].messages)

\* a resolved save of two different messages, where the order shows
C2_Witness ==
  \E c \in Clients :
    /\ Done(c, "saveMessages") /\ Ok(c) /\ exists(call[c].agentId)
    /\ Len(call[c].messages) = 2
    /\ call[c].messages[1] # call[c].messages[2]

\* C3: whenever no call is under way, messageCount of every agent that has
\* its AgentInfo is the number of its persisted messages.
C3_CountIsNumberOfMessages ==
  (\A c \in Clients : pc[c] \in {"idle", "done"}) =>
    \A a \in AgentIds : exists(a) => messageCount(a) = Len(loadMessages(a))

\* C4: when saveMessages calls on the same agent that ran at the same time
\* have all finished and one of them committed, the persisted list is the
\* whole list of one committed call and messageCount is its length.
C4_ConcurrentSavesLeaveOneList ==
  ((\A c \in Clients : Done(c, "saveMessages") /\ call[c].agentId = "agt:1")
     /\ (\E c \in Clients : Ok(c)) /\ exists("agt:1")) =>
    \E c \in Clients :
      /\ Ok(c)
      /\ loadMessages("agt:1") = call[c].messages
      /\ messageCount("agt:1") = Len(call[c].messages)

\* C5: when saveInfo(a, info) has resolved, loadInfo(a) is info on every
\* field, optional fields that were absent being absent.
C5_SaveThenLoadInfo ==
  \A c \in Clients :
    (Done(c, "saveInfo") /\ Ok(c)) => loadInfo(call[c].agentId) = call[c].info

\* C6: when delete(a) has resolved, exists(a) is false, loadInfo(a) is
\* undefined, and the agent's messages, tool-call records, snapshots and
\* events are all empty.
C6_DeleteRemovesEverything ==
  \A c \in Clients :
    (Done(c, "delete") /\ Ok(c)) =>
      LET a == call[c].agentId IN
        /\ ~exists(a)
        /\ loadInfo(a) = NoInfo
        /\ loadMessages(a) = <<>>
        /\ loadToolCallRecords(a) = <<>>
        /\ listSnapshots(a) = {}
        /\ readEvents(a) = <<>>

\* a delete has resolved while the other agent keeps its row
C6_Witness ==
  \E c \in Clients :
    /\ Done(c, "delete") /\ Ok(c)
    /\ \E b \in AgentIds \ {call[c].agentId} : exists(b) /\ loadMessages(b) # <<>>

\* C7: a delete(a) that failed or was cut short by a crash has removed
\* either nothing or everything: never the database rows without the events.
C7_DeleteAllOrNothing ==
  \A c \in Clients :
    (call[c].op = "delete" /\ (pc[c] = "crashed" \/ (pc[c] = "done" /\ Rejected(c)))) =>
      (exists(call[c].agentId) \/ readEvents(call[c].agentId) = <<>>)

\* what is persisted of agent a by the two transactional writes
Persisted(a) == <<loadMessages(a), loadToolCallRecords(a), messageCount(a)>>

\* C8: every step of a saveMessages or saveToolCallRecords call other than
\* its successful COMMIT leaves the persisted messages, tool-call records
\* and messageCount of every agent as they were, and when the call rejects
\* nothing of its transaction is left in the tables.
C8_FailedWriteChangesNothing ==
  [][\A c \in Clients :
       (/\ call[c].op \in TxnOps
        /\ pc[c] \notin {"idle", "done"}
        /\ ~(pc'[c] = "done" /\ result'[c] = NoErr)) =>
         /\ \A a \in AgentIds : Persisted(a)' = Persisted(a)
         /\ pc'[c] = "done" =>
              /\ \A t \in messages' : t.xmin # c /\ t.xmax # c
              /\ \A t \in tool_calls' : t.xmin # c /\ t.xmax # c
              /\ ~upd'[c]]_vars

\* a saveMessages call rejected after it deleted a non-empty list and
\* inserted at least one new message
C8_Witness ==
  \E c \in Clients :
    /\ Done(c, "saveMessages") /\ Rejected(c)
    /\ idx[c] >= 1
    /\ loadMessages(call[c].agentId) # <<>>

\* C9: the error a failed saveMessages or saveToolCallRecords rejects with
\* is the error of the statement that failed.
C9_OriginalErrorDelivered ==
  \A c \in Clients :
    (pc[c] = "done" /\ call[c].op \in TxnOps /\ Rejected(c)) => result[c] = caught[c]

\* C10: a write that was issued before initialization had finished, or
\* after it had failed, rejects.
C10_UninitializedWriteRejects ==
  \A c \in Clients :
    (pc[c] = "done" /\ call[c].op \in WriteOps /\ call[c].issued # "resolved") =>
      Rejected(c)

DependentOps == {"saveMessages", "saveToolCallRecords", "saveSnapshot"}

\* agent a has no persisted message, tool-call record or snapshot
NoDependents(a) ==
  /\ loadMessages(a) = <<>>
  /\ loadToolCallRecords(a) = <<>>
  /\ listSnapshots(a) = {}

\* C11: no step of a saveMessages, saveToolCallRecords or saveSnapshot call
\* for an agent that has no AgentInfo creates the agent's row or persists a
\* message, tool-call record or snapshot of it; and in no state does an
\* agent without AgentInfo own persisted dependent rows.
C11_DependentWriteNeedsAgent ==
  [][/\ \A c \in Clients :
          (/\ call[c].op \in DependentOps
           /\ pc[c] \notin {"idle", "done"}
           /\ ~exists(call[c].agentId)) =>
            (~exists(call[c].agentId)' /\ NoDependents(call[c].agentId)')
     /\ \A a \in AgentIds : ~exists(a)' => NoDependents(a)']_vars

\* a saveMessages for an agent without AgentInfo was turned down by the
\* foreign key, and a saveSnapshot likewise
C11_Witness ==
  \E c \in Clients :
    /\ pc[c] = "done"
    /\ call[c].op \in DependentOps
    /\ result[c] = <<"INSERT", "foreign_key_violation">>
    /\ ~exists(call[c].agentId)
    /\ NoDependents(call[c].agentId)

\* the literal string s starts with the literal string prefix
StartsWith(s, prefix) ==
  Len(prefix) <= Len(s) /\ SubSeq(s, 1, Len(prefix)) = prefix

\* C12: list(prefix) returns exactly the ids of the existing agents whose
\* agentId starts with prefix read as a literal string, newest createdAt
\* first; with no prefix it returns the ids of all existing agents.
C12_ListLiteralPrefix ==
  \A prefix \in Prefixes : \A L \in list(prefix) :
    /\ {L[i] : i \in 1..Len(L)} = {a \in AgentIds : exists(a) /\ StartsWith(Chars(a), prefix)}
    /\ \A i, j \in 1..Len(L) :
         i < j => Instant(loadInfo(L[i]).createdAt[2]) >= Instant(loadInfo(L[j]).createdAt[2])

\* C13: a resolved saveInfo leaves exactly one agents row for the agent,
\* holding the values saved, and a resolved saveSnapshot exactly one
\* snapshot of that id in listSnapshots, holding the values saved; run again
\* with the same arguments on the state the first run left, each changes
\* nothing.
C13_UpsertIdempotent ==
  [][\A c \in Clients :
       /\ (pc[c] = "UPSERT_AGENT" /\ pc'[c] = "done" /\ result'[c] = NoErr) =>
            LET row == InfoToRow(call[c].agentId, call[c].info) IN
              /\ AgentRow(call[c].info.agentId)' = {row}
              /\ row \in agents => agents' = agents
       /\ (pc[c] = "UPSERT_SNAPSHOT" /\ pc'[c] = "done" /\ result'[c] = NoErr) =>
            LET a == call[c].agentId
                row == SnapshotToRow(a, call[c].snapshot)
            IN /\ {x \in snapshots' : x.agent_id = a /\ x.snapshot_id = row.snapshot_id} = {row}
               /\ Cardinality({s \in listSnapshots(a)' : s.id = call[c].snapshot.id}) = 1
               /\ row \in snapshots => snapshots' = snapshots]_vars

\* saveSnapshot is called again with the arguments whose row the first run
\* left, while the agent has one snapshot and its AgentInfo
C13_Witness ==
  \E c \in Clients :
    /\ pc[c] = "UPSERT_SNAPSHOT"
    /\ call[c].snapshot.messages # <<>>
    /\ SnapshotToRow(call[c].agentId, call[c].snapshot) \in snapshots
    /\ Cardinality(listSnapshots(call[c].agentId)) = 1
    /\ exists(call[c].agentId)

\* C14: delete(a) for an agent that has no row changes nothing in the
\* tables (and nothing in an empty event timeline), and every delete ends
\* without error with exists(a) false.
C14_DeleteIdempotent ==
  [][\A c \in Clients :
       call[c].op = "delete" =>
         LET a == call[c].agentId IN
           /\ (pc[c] = "DELETE_AGENT" /\ ~exists(a)) =>
                /\ agents' = agents /\ messages' = messages
                /\ tool_calls' = tool_calls /\ snapshots' = snapshots
           /\ (pc[c] = "FILE_DELETE" /\ readEvents(a) = <<>>) => events' = events
           /\ (pc[c] \in {"DELETE_AGENT", "FILE_DELETE"} /\ pc'[c] = "done") =>
                (result'[c] = NoErr /\ ~exists(a)')]_vars

\* a delete whose DELETE statement found no row has resolved, while the
\* other agent keeps its row
C14_Witness ==
  \E c \in Clients :
    /\ Done(c, "delete") /\ Ok(c)
    /\ idx[c] = 0
    /\ ~exists(call[c].agentId)
    /\ \E b \in AgentIds : exists(b)

\* C15: no step of a saveMessages call changes what loadSnapshot returns
\* for any snapshot of any agent: a saved snapshot keeps the messages it
\* was saved with.
C15_SnapshotIsCopy ==
  [][\A c \in Clients :
       (call[c].op = "saveMessages" /\ pc[c] \notin {"idle", "done"}) =>
         \A a \in AgentIds, id \in SnapshotIds : loadSnapshot(a, id)' = loadSnapshot(a, id)]_vars

\* the agent has saved more messages since the snapshot and the snapshot
\* still holds the one message it was saved with
C15_Witness ==
  \E c \in Clients :
    /\ Done(c, "saveMessages") /\ Ok(c)
    /\ loadSnapshot(call[c].agentId, "snap:1") # NoSnapshot
    /\ loadSnapshot(call[c].agentId, "snap:1").messages = <<MsgUser>>
    /\ Len(loadMessages(call[c].agentId)) = 2

\* everything the store returns for agent a from its tables
View(a) == <<loadInfo(a), loadMessages(a), loadToolCallRecords(a), listSnapshots(a)>>

\* C16: no step of a saveMessages, saveToolCallRecords, saveSnapshot or
\* delete call on one agent changes loadInfo, loadMessages,
\* loadToolCallRecords or listSnapshots of another agent.
C16_OtherAgentsUntouched ==
  [][\A c \in Clients :
       (call[c].op \in DependentOps \cup {"delete"} /\ pc[c] \notin {"idle", "done"}) =>
         \A a \in AgentIds \ {call[c].agentId} : View(a)' = View(a)]_vars

\* an agent that had a row was deleted while the other agent owns messages,
\* a tool-call record and a snapshot
C16_Witness ==
  \E c \in Clients :
    /\ Done(c, "delete") /\ Ok(c)
    /\ idx[c] = 1
    /\ \E b \in AgentIds \ {call[c].agentId} :
         /\ loadMessages(b) # <<>>
         /\ loadToolCallRecords(b) # <<>>
         /\ listSnapshots(b) # {}

\* the parent a saveInfo call forks from: the last id of the lineage it
\* writes, when that agent exists
IsFork(c) ==
  /\ call[c].op = "saveInfo"
  /\ call[c].info.lineage # <<>>
  /\ call[c].info.lineage[Len(call[c].info.lineage)] \in AgentIds
  /\ exists(call[c].info.lineage[Len(call[c].info.lineage)])

\* C17: when the fork of a snapshot of agent a has written the new agent
\* b, loadInfo(b).lineage is loadInfo(a).lineage followed by a; no step of
\* the fork's writes changes a's AgentInfo or messages; and no agent's
\* lineage holds the agent's own id.
C17_ForkLineage ==
  [][/\ \A c \in Clients :
          (IsFork(c) /\ pc[c] = "UPSERT_AGENT") =>
            LET a == call[c].info.lineage[Len(call[c].info.lineage)]
                b == call[c].agentId
            IN /\ loadInfo(a)' = loadInfo(a)
               /\ loadMessages(a)' = loadMessages(a)
               /\ (pc'[c] = "done" /\ result'[c] = NoErr) =>
                    loadInfo(b)'.lineage = loadInfo(a).lineage \o <<a>>
     /\ \A c \in Clients :
          (/\ call[c].op = "saveMessages"
           /\ pc[c] \notin {"idle", "done"}
           /\ exists(call[c].agentId)) =>
            \A a \in Ancestors(loadInfo(call[c].agentId).lineage) \cap AgentIds :
              loadInfo(a)' = loadInfo(a) /\ loadMessages(a)' = loadMessages(a)
     /\ \A b \in AgentIds : exists(b)' => b \notin Ancestors(loadInfo(b)'.lineage)]_vars

\* a fork of agt:1, itself a descendant of agt:0, has written agt:2 and its
\* messages, and agt:1 has gone on to other messages
C17_Witness ==
  /\ exists("agt:1") /\ exists("agt:2")
  /\ loadInfo("agt:1").lineage = <<"agt:0">>
  /\ loadInfo("agt:2").lineage = <<"agt:0", "agt:1">>
  /\ loadMessages("agt:2") = <<MsgUser>>
  /\ Len(loadMessages("agt:1")) = 2
  /\ \E c \in Clients : Done(c, "saveMessages") /\ Ok(c) /\ call[c].agentId = "agt:2"

\* C18: two callers never hold the lock of one agent at the same time, and
\* an acquireAgentLock call that is not granted the lock fails with a
\* timeout.
C18_AgentLockExclusive ==
  /\ \A c, d \in Clients, a \in AgentIds :
       (HoldsAgentLock(c, a) /\ HoldsAgentLock(d, a)) => c = d
  /\ \A c \in Clients :
       (Done(c, "acquireAgentLock") /\ Rejected(c)) =>
         result[c] = <<"acquireAgentLock", "timeout">>

\* the persisted tool-call records of agent a, as a set
Records(a) == {loadToolCallRecords(a)[i] : i \in 1..Len(loadToolCallRecords(a))}

\* C19: every persisted tool-call record has an auditTrail of at least one
\* entry, and the state of its last entry is the record's state.
C19_AuditTrailEndsInState ==
  \A a \in AgentIds : \A r \in Records(a) :
    /\ Len(r.auditTrail) >= 1
    /\ r.auditTrail[Len(r.auditTrail)].state = r.state

\* s is t or t cut short
IsPrefix(s, t) == Len(s) <= Len(t) /\ SubSeq(t, 1, Len(s)) = s

\* C20: from one persisted version of a tool-call record to the next, the
\* auditTrail only grows at its end: the trail persisted before is a prefix
\* of the trail persisted after.
C20_AuditTrailAppendOnly ==
  [][\A a \in AgentIds : \A r \in Records(a) : \A r2 \in Records(a)' :
       r.id = r2.id => IsPrefix(r.auditTrail, r2.auditTrail)]_vars

\* C21: a saveToolCallRecords(b, R) call for an agent that has its AgentInfo,
\* with the ids of R distinct, resolves whatever ids the records of other
\* agents carry, and afterwards b loads a record of every id of R.
C21_ToolCallIdsPerAgent ==
  \A c \in Clients :
    (Done(c, "saveToolCallRecords") /\ exists(call[c].agentId)) =>
      /\ Ok(c)
      /\ \A i \in 1..Len(call[c].records) :
           \E r \in Records(call[c].agentId) : r.id = call[c].records[i].id

\* C22: the AgentStats a resolved aggregateStats(a) returns, with no other
\* caller writing, has totalMessages = Len(loadMessages(a)), totalToolCalls =
\* Len(loadToolCallRecords(a)), totalSnapshots = the number of
\* listSnapshots(a), and toolCallsByName / toolCallsByState hold, for every
\* name / state that a record of a carries, the number of a's records with it
\* (and no other key).
C22_StatsMatchLoads ==
  \A c \in Clients :
    (Done(c, "aggregateStats") /\ Ok(c)) =>
      LET a == call[c].agentId
          s == AgentStats(c)
          recs == loadToolCallRecords(a)
      IN /\ s.totalMessages = Len(loadMessages(a))
         /\ s.totalToolCalls = Len(recs)
         /\ s.totalSnapshots = Cardinality(listSnapshots(a))
         /\ DOMAIN s.toolCallsByName = {recs[i].name : i \in 1..Len(recs)}
         /\ \A n \in DOMAIN s.toolCallsByName :
              s.toolCallsByName[n] = Cardinality({i \in 1..Len(recs) : recs[i].name = n})
         /\ DOMAIN s.toolCallsByState = {recs[i].state : i \in 1..Len(recs)}
         /\ \A st \in DOMAIN s.toolCallsByState :
              s.toolCallsByState[st] = Cardinality({i \in 1..Len(recs) : recs[i].state = st})

\* statistics were returned for an agent that has two messages, two records
\* of different tools and a snapshot while the other agent has rows too
C22_Witness ==
  \E c \in Clients :
    /\ Done(c, "aggregateStats") /\ Ok(c)
    /\ AgentStats(c).totalMessages = 2
    /\ AgentStats(c).totalSnapshots = 1
    /\ DOMAIN AgentStats(c).toolCallsByName = {"fs_read", "bash_run"}
    /\ \E b \in AgentIds \ {call[c].agentId} : loadMessages(b) # <<>>

\* C23: every result of querySessions, queryMessages and queryToolCalls for
\* a filter that carries limit = n, n >= 0, has at most n entries.
C23_LimitBoundsResult ==
  \A f \in Filters :
    f.limit # NoNumber =>
      /\ \A L \in querySessions(f) : Len(L) <= f.limit
      /\ \A L \in queryMessages(f) : Len(L) <= f.limit
      /\ \A L \in queryToolCalls(f) : Len(L) <= f.limit

\* C24: when the saveInfo calls of two callers that ran at the same time
\* have both completed, every agent a call was made for exists and loadInfo of it is,
\* on every field, the info of one of the calls made for it.
C24_ConcurrentSaveInfos ==
  (\A c \in Clients : Done(c, "saveInfo")) =>
    \A c \in Clients :
      Ok(c) =>
        /\ exists(call[c].agentId)
        /\ \E d \in Clients :
             /\ Done(d, "saveInfo")
             /\ call[d].agentId = call[c].agentId
             /\ loadInfo(call[c].agentId) = call[d].info

\* C25: a snapshot that loadSnapshot(a, id) returns is still returned, with
\* that id, after every step of every saveInfo, saveMessages,
\* saveToolCallRecords and saveSnapshot call: only the DELETE of delete(a)
\* takes a snapshot of agent a away.
C25_SnapshotsOnlyGrow ==
  [][\A a \in AgentIds, id \in {"snap:1", "snap:2"} :
       (/\ loadSnapshot(a, id) # NoSnapshot
        /\ ~\E c \in Clients :
              call[c].op = "delete" /\ call[c].agentId = a /\ pc[c] = "DELETE_AGENT") =>
         (loadSnapshot(a, id)' # NoSnapshot /\ loadSnapshot(a, id)'.id = id)]_vars

\* an agent holds two snapshots and has since saved its tool-call records
\* and messages
C25_Witness ==
  \E c \in Clients :
    /\ Done(c, "saveToolCallRecords") /\ Ok(c)
    /\ loadSnapshot(call[c].agentId, "snap:1") # NoSnapshot
    /\ loadSnapshot(call[c].agentId, "snap:2") # NoSnapshot
    /\ loadMessages(call[c].agentId) # <<>>

\* C26: readEvents(a, {since, channel}) yields the appended events of a that
\* are of the requested channel (of any channel when none is requested) and,
\* when since is given, have a seq strictly greater than since.seq; it
\* yields all of them, each once, in non-decreasing seq order, and no more
\* than the timeline holds when the call is made.
C26_ReadEventsInOrder ==
  \A a \in AgentIds, since \in {NoNumber} \cup (0..MaxEvents), channel \in Channels \cup {Undefined} :
    LET L == readEventsSince(a, since, channel) IN
      /\ \A i, j \in 1..Len(L) : i < j => (L[i].seq <= L[j].seq /\ L[i] # L[j])
      /\ \A i \in 1..Len(L) :
           /\ channel # Undefined => L[i].channel = channel
           /\ since # NoNumber => L[i].seq > since
      /\ \A k \in 1..Len(events[a]) :
           ((channel = Undefined \/ events[a][k].channel = channel)
              /\ (since = NoNumber \/ events[a][k].seq > since)) =>
             \E i \in 1..Len(L) : L[i] = events[a][k]
      /\ Len(L) <= Len(events[a])

\* a timeline of control, progress, control: a reader of the control channel
\* that resumes from the first event's bookmark gets the third event only
C26_Witness ==
  \E a \in AgentIds :
    /\ Len(events[a]) = 3
    /\ events[a][1].channel = "control"
    /\ events[a][2].channel = "progress"
    /\ Len(readEventsSince(a, 0, "control")) = 1
    /\ readEventsSince(a, 0, "control")[1].seq = 2

LogicalErrors == {"check_violation", "unique_violation", "foreign_key_violation"}

\* C28: a statement that fails on a lost connection is issued again by the
\* call, which does not give up at that first failure; a statement that
\* fails on a constraint is not issued again: the call goes to its catch
\* block at once and rejects with that error.
C28_RetryTransientOnly ==
  [][\A c \in Clients :
       /\ (pc[c] \in TxnStatements /\ caught'[c] # caught[c] /\ caught'[c][2] = "connection") =>
            pc'[c] = pc[c]
       /\ (pc[c] \in TxnStatements /\ caught'[c] # caught[c] /\ caught'[c][2] \in LogicalErrors) =>
            pc'[c] = "ROLLBACK"
       /\ (pc[c] = "ROLLBACK" /\ caught[c][2] \in LogicalErrors /\ pc'[c] = "done") =>
            result'[c] \in {caught[c], <<"ROLLBACK", "connection">>}]_vars

\* C29: the persisted breakpoint of an agent changes to AWAITING_APPROVAL
\* only from RUNNING and only while one of its tool calls waits for a
\* decision; it leaves AWAITING_APPROVAL only for RUNNING and only once the
\* call was allowed or denied; PAUSED is entered only from RUNNING and left
\* only for RUNNING.
C29_BreakpointTransitions ==
  [][\A a \in AgentIds :
       (BreakpointOf(a) # "none" /\ BreakpointOf(a)' # BreakpointOf(a)) =>
         /\ BreakpointOf(a)' = "AWAITING_APPROVAL" =>
              (BreakpointOf(a) = "RUNNING" /\ RequiresApproval(a))
         /\ BreakpointOf(a) = "AWAITING_APPROVAL" =>
              (BreakpointOf(a)' = "RUNNING" /\ Decided(a))
         /\ BreakpointOf(a)' = "PAUSED" => BreakpointOf(a) = "RUNNING"
         /\ BreakpointOf(a) = "PAUSED" => BreakpointOf(a)' = "RUNNING"]_vars

\* one agent runs again after its tool call was denied while the other is
\* paused
C29_Witness ==
  \E a, b \in AgentIds :
    /\ BreakpointOf(a) = "RUNNING"
    /\ \E t \in CommittedRows(tool_calls) : t.agent_id = a /\ t.state = "DENIED"
    /\ BreakpointOf(b) = "PAUSED"

\* the code exec is said to resolve with, given what the last commands.run
\* settled with
ExpectedCode(o) ==
  IF o.kind = "result" THEN o.exitCode
  ELSE IF o.exitCode # NoNumber THEN o.exitCode
  ELSE 1

C32_DisposeCleans ==
  [][\A c \in Clients :
       call[c].op = "dispose" =>
         /\ (pc[c] = "STOP" /\ pc'[c] # "STOP") =>
              \A i \in 1..Len(watchers) :
                \A k \in 1..Len(watchers[i].handles) :
                  handles[watchers[i].handles[k]] = "stopped"
         /\ (pc[c] # "done" /\ pc'[c] = "done" /\ result'[c][1] = "resolved") =>
              /\ watchers' = <<>>
              /\ e2b' = Null
              /\ pc[c] = "KILL" => killed']_vars

C34_SaveInfoWritesOwnRow ==
  [][\A c \in Clients :
       (pc[c] = "UPSERT_AGENT" /\ pc'[c] = "done" /\ result'[c] = NoErr) =>
         /\ loadInfo(call[c].agentId)' = call[c].info
         /\ \A b \in AgentIds \ {call[c].agentId} : loadInfo(b)' = loadInfo(b)]_vars

RECURSIVE SumOf(_)
\* the sum of the counts of a toolCallsByName or toolCallsByState object
SumOf(f) ==
  IF DOMAIN f = {} THEN 0
  ELSE LET k == CHOOSE x \in DOMAIN f : TRUE
       IN f[k] + SumOf([x \in DOMAIN f \ {k} |-> f[x]])

\* C35: in the result of a resolved aggregateStats call, the counts of
\* toolCallsByName add up to totalToolCalls and so do the counts of
\* toolCallsByState, whatever saveToolCallRecords did on the agent meanwhile.
C35_StatsConsistent ==
  \A c \in Clients :
    (Done(c, "aggregateStats") /\ Ok(c)) =>
      /\ SumOf(AgentStats(c).toolCallsByName) = AgentStats(c).totalToolCalls
      /\ SumOf(AgentStats(c).toolCallsByState) = AgentStats(c).totalToolCalls

\* C36: after a saveToolCallRecords(a, <<r>>) call that resolved,
\* loadToolCallRecords(a) is one record whose result, error, startedAt,
\* completedAt and durationMs are those of r wherever r has them set, 0 and
\* the empty string included.
C36_OptionalFieldsKept ==
  \A c \in Clients :
    (Done(c, "saveToolCallRecords") /\ Ok(c) /\ Len(call[c].records) = 1) =>
      LET r == call[c].records[1]
          L == loadToolCallRecords(call[c].agentId)
      IN /\ Len(L) = 1
         /\ r.result # Undefined => L[1].result = r.result
         /\ r.error # Undefined => L[1].error = r.error
         /\ r.startedAt # NoNumber => L[1].startedAt = r.startedAt
         /\ r.completedAt # NoNumber => L[1].completedAt = r.completedAt
         /\ r.durationMs # NoNumber => L[1].durationMs = r.durationMs

\* C37: when a watchFiles call has rejected, every handle it had opened is
\* stopped or belongs to a registered watcher, where unwatchFiles and
\* dispose find it.
C37_PartialWatchHandlesReachable ==
  \A c \in Clients :
    (Done(c, "watchFiles") /\ result[c][1] = "rejected") =>
      \A k \in 1..Len(call[c].rows) :
        \/ handles[call[c].rows[k]] = "stopped"
        \/ \E i \in 1..Len(watchers) :
             \E j \in 1..Len(watchers[i].handles) : watchers[i].handles[j] = call[c].rows[k]

\* C38: once a dispose() call has resolved, and for as long as the sandbox
\* is not initialized again, the registry of watchers is empty, whatever
\* watchFiles and unwatchFiles calls were made or were under way.
C38_RegistryStaysEmpty ==
  \A c \in Clients :
    (Done(c, "dispose") /\ result[c][1] = "resolved" /\ e2b = Null) => watchers = <<>>

\* what the claim calls a rate-limit failure of the operation
RateLimitFailure(o) ==
  o.kind = "error" /\ (o.name = "RateLimitError" \/ o.status = 429)

\* C39: withRetry, as exec uses it, runs the operation at most MaxRetries
\* times; every run but the last ended in a rate-limit failure, and while
\* another run is to come all of them did; a success ends the runs and is
\* what is returned, any other error ends them and is what is thrown, and a
\* rate-limit failure is thrown only from run MaxRetries.
C39_WithRetry ==
  \A c \in Clients :
    (call[c].op = "exec" /\ pc[c] \in {"RUN", "SLEEP", "done"}) =>
      LET runs == call[c].rows
          n == Len(runs)
      IN /\ n <= MaxRetries
         /\ \A k \in 1..(n - 1) : RateLimitFailure(runs[k])
         /\ pc[c] \in {"RUN", "SLEEP"} =>
              /\ n < MaxRetries
              /\ \A k \in 1..n : RateLimitFailure(runs[k])
         /\ pc[c] = "SLEEP" => n = idx[c] + 1
         /\ pc[c] = "RUN" => n = idx[c]
         /\ (pc[c] = "done" /\ call[c].issued = "initialized") =>
              /\ n >= 1
              /\ IF runs[n].kind = "result"
                 THEN result[c] = <<"resolved", ExecResult(runs[n])>>
                 ELSE /\ result[c] = <<"resolved", CatchResult(runs[n])>>
                      /\ RateLimitFailure(runs[n]) => n = MaxRetries

\* one exec call has returned the result of its second run, after a status
\* 429 on the first; another has thrown a TimeoutError from its first run
C39_Witness ==
  \E c, d \in Clients :
    /\ Done(c, "exec") /\ Done(d, "exec")
    /\ Len(call[c].rows) = 2
    /\ call[c].rows[1].status = 429
    /\ call[c].rows[2].kind = "result"
    /\ Len(call[d].rows) = 1
    /\ call[d].rows[1].name = "TimeoutError"

====
